---- MODULE Spec2Model ----
(***************************************************************************)
(* bindcar: the zone-block parser (rndc_parser.rs), the zone model and its *)
(* serializer (rndc_types.rs), the PATCH handler (zones.rs modify_zone)    *)
(* and the rndc.conf include resolver (rndc_conf_parser.rs).               *)
(*                                                                         *)
(* Text is modelled character by character: a Rust &str / String is a TLA+ *)
(* string, read with Len, Head, Tail, SubSeq and \o.                       *)
(***************************************************************************)
EXTENDS Integers, Sequences, FiniteSets, TLC

VARIABLES
    pc,        \* position of the zone pipeline / of the resolver call
    named,     \* the DNS server's stored configuration of the zone (showzone text)
    zoneFile,  \* whether <zone_dir>/<zone>.zone exists
    request,   \* the last ModifyZoneRequest handled
    response,  \* the handler's last result
    sent,      \* the block handed to rndc modzone by the last request, or None
    config,    \* a ZoneConfig value under test (parsed or constructed)
    block,     \* the text to_rndc_block returned for config
    reparsed,  \* parse_showzone of the re-emitted block
    input,     \* the text given to parse_showzone / the path given to parse_rndc_conf_file
    fs,        \* the file system seen by parse_rndc_conf_file
    visited,   \* HashSet<PathBuf> of the running parse_rndc_conf_file call
    stack,     \* call frames of parse_rndc_conf_file_recursive
    result     \* what parse_rndc_conf_file returned

vars == <<pc, named, zoneFile, request, response, sent, config, block,
          reparsed, input, fs, visited, stack, result>>

-----------------------------------------------------------------------------
(* Option<T> and character-level string primitives (Rust std, nom)         *)

None == <<>>
Some(v) == <<v>>
IsSome(o) == o # <<>>
IsNone(o) == o = <<>>
Unwrap(o) == o[1]

Take(s, n) == SubSeq(s, 1, n)
Drop(s, n) == SubSeq(s, n + 1, Len(s))
LastCh(s) == SubSeq(s, Len(s), Len(s))

Whitespace == {" ", "\t", "\n", "\r"}
Digit == {"0", "1", "2", "3", "4", "5", "6", "7", "8", "9"}
HexDigit == Digit \cup {"a", "b", "c", "d", "e", "f", "A", "B", "C", "D", "E", "F"}
Alpha == {"a", "b", "c", "d", "e", "f", "g", "h", "i", "j", "k", "l", "m",
          "n", "o", "p", "q", "r", "s", "t", "u", "v", "w", "x", "y", "z",
          "A", "B", "C", "D", "E", "F", "G", "H", "I", "J", "K", "L", "M",
          "N", "O", "P", "Q", "R", "S", "T", "U", "V", "W", "X", "Y", "Z"}

\* number of leading characters of s that belong to C
RECURSIVE SpanLen(_, _)
SpanLen(s, C) ==
    IF s = "" THEN 0
    ELSE IF Head(s) \in C THEN 1 + SpanLen(Tail(s), C) ELSE 0

\* offset of the first occurrence of pat in s, or -1 (str::find)
RECURSIVE Find(_, _)
Find(pat, s) ==
    IF Len(s) < Len(pat) THEN -1
    ELSE IF Take(s, Len(pat)) = pat THEN 0
    ELSE LET r == Find(pat, Tail(s)) IN IF r < 0 THEN -1 ELSE r + 1

\* the offsets at which pat occurs in s
Occurrences(pat, s) ==
    {i \in 0..(Len(s) - Len(pat)) : SubSeq(s, i + 1, i + Len(pat)) = pat}

\* str::contains
Contains(s, pat) == Occurrences(pat, s) # {}

\* number of occurrences of pat in s
Count(pat, s) == Cardinality(Occurrences(pat, s))

StartsWith(s, pat) == Len(s) >= Len(pat) /\ Take(s, Len(pat)) = pat
EndsWith(s, pat) == Len(s) >= Len(pat) /\ Drop(s, Len(s) - Len(pat)) = pat

\* str::trim_end_matches over a set of characters
RECURSIVE TrimEndSet(_, _)
TrimEndSet(s, C) ==
    IF s # "" /\ LastCh(s) \in C THEN TrimEndSet(Take(s, Len(s) - 1), C) ELSE s

trim_end(s) == TrimEndSet(s, Whitespace)
trim_start(s) == Drop(s, SpanLen(s, Whitespace))
trim(s) == trim_end(trim_start(s))
trim_end_matches(s, c) == TrimEndSet(s, {c})

\* [T]::join(sep) for strings
RECURSIVE Join(_, _)
Join(parts, sep) ==
    IF parts = <<>> THEN ""
    ELSE IF Len(parts) = 1 THEN parts[1]
    ELSE parts[1] \o sep \o Join(Tail(parts), sep)

\* Vec<T>::iter().map(f).collect()
RECURSIVE Map(_, _)
Map(F(_), xs) == IF xs = <<>> THEN <<>> ELSE <<F(Head(xs))>> \o Map(F, Tail(xs))

DigitVal == [d \in Digit |->
    CASE d = "0" -> 0 [] d = "1" -> 1 [] d = "2" -> 2 [] d = "3" -> 3 [] d = "4" -> 4
      [] d = "5" -> 5 [] d = "6" -> 6 [] d = "7" -> 7 [] d = "8" -> 8 [] d = "9" -> 9]

DigitCh == <<"0", "1", "2", "3", "4", "5", "6", "7", "8", "9">>

\* value of a run of decimal digits
RECURSIVE DecValue(_)
DecValue(s) ==
    IF s = "" THEN 0 ELSE 10 * DecValue(Take(s, Len(s) - 1)) + DigitVal[LastCh(s)]

\* Display of an unsigned integer
RECURSIVE ToDec(_)
ToDec(n) == IF n < 10 THEN DigitCh[n + 1] ELSE ToDec(n \div 10) \o DigitCh[(n % 10) + 1]

-----------------------------------------------------------------------------
(* std::net::IpAddr: FromStr and Display.  An IpAddr value is modelled by   *)
(* its canonical Display text.                                             *)

\* str::split(c)
RECURSIVE Split(_, _)
Split(s, c) ==
    LET i == Find(c, s)
    IN IF i < 0 THEN <<s>> ELSE <<Take(s, i)>> \o Split(Drop(s, i + 1), c)

\* one octet of a dotted quad: 1..3 digits, no leading zero, at most 255
ValidOctet(p) ==
    /\ Len(p) \in 1..3
    /\ SpanLen(p, Digit) = Len(p)
    /\ (Len(p) > 1 => Head(p) # "0")
    /\ DecValue(p) <= 255

\* Ipv4Addr::from_str
ValidIpv4(s) ==
    LET parts == Split(s, ".")
    IN Len(parts) = 4 /\ \A i \in 1..4 : ValidOctet(parts[i])

\* Ipv6Addr::from_str followed by Display, on the spellings the model uses
Ipv6Canonical == ("::1" :> "::1") @@ ("0::1" :> "::1") @@ ("::2" :> "::2")

\* <IpAddr as FromStr>::from_str: Some(address) or None
ParseIpAddr(s) ==
    IF ValidIpv4(s) THEN Some(s)
    ELSE IF s \in DOMAIN Ipv6Canonical THEN Some(Ipv6Canonical[s])
    ELSE None

\* <u16 as FromStr>::from_str on a run of digits: None on overflow
ParseU16(s) == IF Len(s) <= 5 /\ DecValue(s) <= 65535 THEN Some(DecValue(s)) ELSE None

-----------------------------------------------------------------------------
(* nom combinators of rndc_parser.rs.  A parser maps the remaining input   *)
(* to [ok, rest, val].                                                     *)

Ok(rest, val) == [ok |-> TRUE, rest |-> rest, val |-> val]
Err == [ok |-> FALSE, rest |-> "", val |-> <<>>]

\* let x = ...; the value is computed once and named in what follows
With(x, F(_)) == F(x)

multispace0(s) == Drop(s, SpanLen(s, Whitespace))

tag(t, s) == IF StartsWith(s, t) THEN Ok(Drop(s, Len(t)), t) ELSE Err

take_until(pat, s) ==
    With(Find(pat, s), LAMBDA i :
        IF i < 0 THEN Err ELSE Ok(Drop(s, i), Take(s, i)))

take_while1(C, s) ==
    With(SpanLen(s, C), LAMBDA n :
        IF n = 0 THEN Err ELSE Ok(Drop(s, n), Take(s, n)))

\* delimited(multispace0, inner, multispace0)
ws(P(_), s) ==
    With(P(multispace0(s)), LAMBDA r :
        IF r.ok THEN Ok(multispace0(r.rest), r.val) ELSE Err)

ws_tag(t, s) == ws(LAMBDA x : tag(t, x), s)

semicolon(s) == ws_tag(";", s)

quoted_string(s) ==
    With(tag("\"", s), LAMBDA q1 :
    With(take_until("\"", q1.rest), LAMBDA body :
    With(tag("\"", body.rest), LAMBDA q2 :
        IF q1.ok /\ body.ok /\ q2.ok THEN Ok(q2.rest, body.val) ELSE Err)))

IdentChars == Alpha \cup Digit \cup {"_", "-"}

identifier(s) == take_while1(IdentChars, s)

ip_addr(s) ==
    With(take_while1(HexDigit \cup {".", ":"}, s), LAMBDA a :
    With(ParseIpAddr(a.val), LAMBDA addr :
    With(tag("/", a.rest), LAMBDA slash :
    With(take_while1(Digit, slash.rest), LAMBDA bits :
        IF ~a.ok \/ IsNone(addr) THEN Err
        ELSE IF slash.ok /\ bits.ok THEN Ok(bits.rest, Unwrap(addr))
        ELSE Ok(a.rest, Unwrap(addr))))))

\* PrimarySpec { address, port }
ip_with_port(s) ==
    With(ws(ip_addr, s), LAMBDA a :
    With(ws_tag("port", a.rest), LAMBDA kw :
    With(take_while1(Digit, kw.rest), LAMBDA num :
        IF ~a.ok THEN Err
        ELSE IF kw.ok /\ num.ok
             THEN Ok(num.rest, [address |-> a.val, port |-> ParseU16(num.val)])
             ELSE Ok(a.rest, [address |-> a.val, port |-> None]))))

\* many0(terminated(item, semicolon)): <<items, rest>>
RECURSIVE many0_terminated(_, _)
many0_terminated(P(_), s) ==
    With(P(s), LAMBDA r :
    With(semicolon(r.rest), LAMBDA t :
        IF r.ok /\ t.ok
        THEN With(many0_terminated(P, t.rest), LAMBDA m :
                  <<<<r.val>> \o m[1], m[2]>>)
        ELSE <<<<>>, s>>))

\* delimited(ws(char('{')), many0(terminated(item, semicolon)), ws(char('}')))
braced_list(P(_), s) ==
    With(ws_tag("{", s), LAMBDA open :
    With(many0_terminated(P, open.rest), LAMBDA items :
    With(ws_tag("}", items[2]), LAMBDA close :
        IF open.ok /\ close.ok THEN Ok(close.rest, items[1]) ELSE Err)))

ip_list(s) == braced_list(LAMBDA x : ws(ip_addr, x), s)

primary_list(s) == braced_list(ip_with_port, s)

-----------------------------------------------------------------------------
(* rndc_types.rs: the closed vocabularies and ZoneConfig                   *)

ZoneTypes == {"Primary", "Secondary", "Stub", "Forward", "Hint", "Mirror",
              "Delegation", "Redirect"}

ZoneType_as_str(t) ==
    CASE t = "Primary" -> "primary"
      [] t = "Secondary" -> "secondary"
      [] t = "Stub" -> "stub"
      [] t = "Forward" -> "forward"
      [] t = "Hint" -> "hint"
      [] t = "Mirror" -> "mirror"
      [] t = "Delegation" -> "delegation-only"
      [] t = "Redirect" -> "redirect"

ZoneType_parse(s) ==
    CASE s \in {"primary", "master"} -> Some("Primary")
      [] s \in {"secondary", "slave"} -> Some("Secondary")
      [] s = "stub" -> Some("Stub")
      [] s = "forward" -> Some("Forward")
      [] s = "hint" -> Some("Hint")
      [] s = "mirror" -> Some("Mirror")
      [] s = "delegation-only" -> Some("Delegation")
      [] s = "redirect" -> Some("Redirect")
      [] OTHER -> None

NotifyMode_as_str(m) ==
    CASE m = "Yes" -> "yes"
      [] m = "No" -> "no"
      [] m = "Explicit" -> "explicit"
      [] m = "MasterOnly" -> "master-only"
      [] m = "PrimaryOnly" -> "primary-only"

ForwardMode_as_str(m) == CASE m = "Only" -> "only" [] m = "First" -> "first"

AutoDnssecMode_as_str(m) ==
    CASE m = "Off" -> "off" [] m = "Maintain" -> "maintain" [] m = "Create" -> "create"

CheckNamesMode_as_str(m) ==
    CASE m = "Fail" -> "fail" [] m = "Warn" -> "warn" [] m = "Ignore" -> "ignore"

MasterfileFormat_as_str(m) ==
    CASE m = "Text" -> "text" [] m = "Raw" -> "raw" [] m = "Map" -> "map"

\* HashMap<String, String>: a function from the keys present to their values
EmptyMap == <<>>
MapInsert(m, k, v) == [x \in (DOMAIN m) \cup {k} |-> IF x = k THEN v ELSE m[x]]

\* ZoneConfig::new
ZoneConfig_new(zone_name, zone_type) ==
    [zone_name |-> zone_name, class |-> "IN", zone_type |-> zone_type,
     file |-> None, primaries |-> None, also_notify |-> None, notify |-> None,
     allow_query |-> None, allow_transfer |-> None, allow_update |-> None,
     allow_update_raw |-> None, allow_update_forwarding |-> None,
     allow_notify |-> None,
     max_transfer_time_in |-> None, max_transfer_time_out |-> None,
     max_transfer_idle_in |-> None, max_transfer_idle_out |-> None,
     transfer_source |-> None, transfer_source_v6 |-> None,
     notify_source |-> None, notify_source_v6 |-> None,
     update_policy |-> None, journal |-> None, ixfr_from_differences |-> None,
     inline_signing |-> None, auto_dnssec |-> None, key_directory |-> None,
     sig_validity_interval |-> None, dnskey_sig_validity |-> None,
     forward |-> None, forwarders |-> None,
     check_names |-> None, check_mx |-> None, check_integrity |-> None,
     masterfile_format |-> None, max_zone_ttl |-> None,
     max_refresh_time |-> None, min_refresh_time |-> None,
     max_retry_time |-> None, min_retry_time |-> None,
     multi_master |-> None, request_ixfr |-> None, request_expire |-> None,
     raw_options |-> EmptyMap]

\* the typed fields of ZoneConfig: everything but zone_name, class, the raw
\* allow-update text and raw_options
TypedFields ==
    {"zone_type", "file", "primaries", "also_notify", "notify", "allow_query",
     "allow_transfer", "allow_update", "allow_update_forwarding", "allow_notify",
     "max_transfer_time_in", "max_transfer_time_out", "max_transfer_idle_in",
     "max_transfer_idle_out", "transfer_source", "transfer_source_v6",
     "notify_source", "notify_source_v6", "update_policy", "journal",
     "ixfr_from_differences", "inline_signing", "auto_dnssec", "key_directory",
     "sig_validity_interval", "dnskey_sig_validity", "forward", "forwarders",
     "check_names", "check_mx", "check_integrity", "masterfile_format",
     "max_zone_ttl", "max_refresh_time", "min_refresh_time", "max_retry_time",
     "min_retry_time", "multi_master", "request_ixfr", "request_expire"}

-----------------------------------------------------------------------------
(* rndc_parser.rs: the statements of a zone block                          *)

Stmt(kind, val) == [kind |-> kind, val |-> val]

parse_type_statement(s) ==
    With(ws_tag("type", s), LAMBDA kw :
    With(ws(identifier, kw.rest), LAMBDA id :
    With(semicolon(id.rest), LAMBDA sc :
    With(ZoneType_parse(id.val), LAMBDA zt :
        IF kw.ok /\ id.ok /\ sc.ok /\ IsSome(zt)
        THEN Ok(sc.rest, Stmt("Type", Unwrap(zt))) ELSE Err))))

parse_file_statement(s) ==
    With(ws_tag("file", s), LAMBDA kw :
    With(ws(quoted_string, kw.rest), LAMBDA f :
    With(semicolon(f.rest), LAMBDA sc :
        IF kw.ok /\ f.ok /\ sc.ok THEN Ok(sc.rest, Stmt("File", f.val)) ELSE Err)))

\* alt: the result of the first parser that succeeds
first_ok(results) ==
    With({i \in DOMAIN results : results[i].ok}, LAMBDA oks :
        IF oks = {} THEN Err
        ELSE results[CHOOSE i \in oks : \A j \in oks : i <= j])

parse_primaries_statement(s) ==
    With(first_ok(<<ws_tag("primaries", s), ws_tag("masters", s)>>), LAMBDA kw :
    With(primary_list(kw.rest), LAMBDA l :
    With(semicolon(l.rest), LAMBDA sc :
        IF kw.ok /\ l.ok /\ sc.ok
        THEN Ok(sc.rest, Stmt("Primaries", l.val)) ELSE Err)))

parse_also_notify_statement(s) ==
    With(ws_tag("also-notify", s), LAMBDA kw :
    With(ip_list(kw.rest), LAMBDA l :
    With(semicolon(l.rest), LAMBDA sc :
        IF kw.ok /\ l.ok /\ sc.ok
        THEN Ok(sc.rest, Stmt("AlsoNotify", l.val)) ELSE Err)))

parse_allow_transfer_statement(s) ==
    With(ws_tag("allow-transfer", s), LAMBDA kw :
    With(ip_list(kw.rest), LAMBDA l :
    With(semicolon(l.rest), LAMBDA sc :
        IF kw.ok /\ l.ok /\ sc.ok
        THEN Ok(sc.rest, Stmt("AllowTransfer", l.val)) ELSE Err)))

\* take_until(";") followed by char(';')
skip_entry(s) ==
    With(take_until(";", s), LAMBDA u :
    With(tag(";", u.rest), LAMBDA c :
        IF u.ok /\ c.ok THEN Ok(c.rest, u.val) ELSE Err))

\* the result of the loop over the entries of an allow-update body
Entries(rest, addrs, has_key_ref) ==
    [ok |-> TRUE, rest |-> rest, addrs |-> addrs, has_key_ref |-> has_key_ref]
EntriesErr == [ok |-> FALSE, rest |-> "", addrs |-> <<>>, has_key_ref |-> FALSE]

\* the loop of parse_allow_update_statement over the entries of the body
RECURSIVE allow_update_entries(_, _, _)
allow_update_entries(remaining, addrs, has_key_ref) ==
    With(multispace0(remaining), LAMBDA inp :
    With(tag("}", inp), LAMBDA close :
    With(ws_tag("key", inp), LAMBDA key :
    With(ip_addr(inp), LAMBDA ip :
        IF close.ok THEN Entries(close.rest, addrs, has_key_ref)
        ELSE IF key.ok
        THEN With(skip_entry(key.rest), LAMBDA skipped :
                 IF skipped.ok
                 THEN allow_update_entries(skipped.rest, addrs, TRUE)
                 ELSE EntriesErr)
        ELSE IF ip.ok
        THEN With(semicolon(ip.rest), LAMBDA sc :
                 IF sc.ok
                 THEN allow_update_entries(sc.rest, Append(addrs, ip.val),
                                           has_key_ref)
                 ELSE EntriesErr)
        ELSE With(skip_entry(inp), LAMBDA skipped :
                 IF skipped.ok
                 THEN allow_update_entries(skipped.rest, addrs, has_key_ref)
                 ELSE EntriesErr)))))

parse_allow_update_statement(s) ==
    With(ws_tag("allow-update", s), LAMBDA kw :
    With(ws_tag("{", kw.rest), LAMBDA open :
    With(allow_update_entries(open.rest, <<>>, FALSE), LAMBDA body :
    With(semicolon(body.rest), LAMBDA sc :
        IF kw.ok /\ open.ok /\ body.ok /\ sc.ok
        THEN IF body.has_key_ref
             THEN Ok(sc.rest,
                     Stmt("AllowUpdateRaw",
                          Take(kw.rest, Len(kw.rest) - Len(sc.rest))))
             ELSE Ok(sc.rest, Stmt("AllowUpdate", body.addrs))
        ELSE Err))))

\* the value of an unknown statement: a block up to the first "}", or the
\* text up to the next ";"
unknown_value(start_input) ==
    With(ws_tag("{", start_input), LAMBDA open :
    With(take_until("}", open.rest), LAMBDA inner :
    With(ws_tag("}", inner.rest), LAMBDA close :
        IF open.ok /\ inner.ok /\ close.ok THEN close
        ELSE take_until(";", start_input))))

parse_unknown_statement(s) ==
    With(ws(identifier, s), LAMBDA name :
    With(unknown_value(name.rest), LAMBDA value :
    With(semicolon(value.rest), LAMBDA sc :
        IF name.ok /\ value.ok /\ sc.ok
        THEN Ok(sc.rest,
                Stmt("Unknown",
                     <<name.val,
                       trim(Take(name.rest, Len(name.rest) - Len(value.rest)))>>))
        ELSE Err)))

\* alt((type, file, primaries, also-notify, allow-transfer, allow-update, unknown))
parse_zone_statement(s) ==
    first_ok(<<parse_type_statement(s), parse_file_statement(s),
               parse_primaries_statement(s), parse_also_notify_statement(s),
               parse_allow_transfer_statement(s), parse_allow_update_statement(s),
               parse_unknown_statement(s)>>)

\* many0(parse_zone_statement): <<statements, rest>>
RECURSIVE many0_statements(_)
many0_statements(s) ==
    With(parse_zone_statement(s), LAMBDA r :
        IF r.ok
        THEN With(many0_statements(r.rest), LAMBDA m : <<<<r.val>> \o m[1], m[2]>>)
        ELSE <<<<>>, s>>)

\* the match of parse_zone_config_internal that stores one statement
apply_statement(c, st) ==
    CASE st.kind = "Type" -> [c EXCEPT !.zone_type = st.val]
      [] st.kind = "File" -> [c EXCEPT !.file = Some(st.val)]
      [] st.kind = "Primaries" -> [c EXCEPT !.primaries = Some(st.val)]
      [] st.kind = "AlsoNotify" -> [c EXCEPT !.also_notify = Some(st.val)]
      [] st.kind = "AllowTransfer" -> [c EXCEPT !.allow_transfer = Some(st.val)]
      [] st.kind = "AllowUpdate" -> [c EXCEPT !.allow_update = Some(st.val)]
      [] st.kind = "AllowUpdateRaw" -> [c EXCEPT !.allow_update_raw = Some(st.val)]
      [] st.kind = "Unknown" ->
            [c EXCEPT !.raw_options = MapInsert(c.raw_options, st.val[1], st.val[2])]

RECURSIVE apply_statements(_, _)
apply_statements(c, stmts) ==
    IF stmts = <<>> THEN c
    ELSE apply_statements(apply_statement(c, Head(stmts)), Tail(stmts))

\* opt(ws(alt((tag("IN"), tag("CH"), tag("HS"))))), IN when absent
opt_class(s) ==
    first_ok(<<ws_tag("IN", s), ws_tag("CH", s), ws_tag("HS", s), Ok(s, "IN")>>)

parse_zone_config_internal(s) ==
    With(ws_tag("zone", s), LAMBDA kw :
    With(ws(quoted_string, kw.rest), LAMBDA name :
    With(opt_class(name.rest), LAMBDA class :
    With(ws_tag("{", class.rest), LAMBDA open :
    With(many0_statements(open.rest), LAMBDA stmts :
    With(ws_tag("};", stmts[2]), LAMBDA close :
        IF kw.ok /\ name.ok /\ open.ok /\ close.ok
        THEN Ok(close.rest,
                apply_statements([ZoneConfig_new(name.val, "Primary")
                                     EXCEPT !.class = class.val],
                                 stmts[1]))
        ELSE Err))))))

\* parse_showzone: [ok, val]; val is the ZoneConfig or the error's name
parse_showzone(text) ==
    With(parse_zone_config_internal(trim(text)), LAMBDA r :
        IF r.ok THEN [ok |-> TRUE, val |-> r.val]
        ELSE [ok |-> FALSE, val |-> "ParseError"])

-----------------------------------------------------------------------------
(* rndc_types.rs: ZoneConfig::to_rndc_block                                *)

\* a list part that is written for an empty list as well
IpListPart_emits_empty(name, opt) ==
    IF IsSome(opt)
    THEN <<name \o " { " \o Join(Unwrap(opt), "; ") \o "; }">> ELSE <<>>

IpListPart(name, opt) ==
    IF IsSome(opt) /\ Unwrap(opt) # <<>>
    THEN <<name \o " { " \o Join(Unwrap(opt), "; ") \o "; }">> ELSE <<>>

PrimaryText(p) ==
    IF IsSome(p.port) THEN p.address \o " port " \o ToDec(Unwrap(p.port)) ELSE p.address

ForwarderText(f) ==
    IF IsSome(f.tls_config) THEN f.address \o " tls " \o Unwrap(f.tls_config)
    ELSE IF IsSome(f.port) THEN f.address \o " port " \o ToDec(Unwrap(f.port))
    ELSE f.address

SpecListPart(name, Text(_), opt) ==
    IF IsSome(opt) /\ Unwrap(opt) # <<>>
    THEN <<name \o " { " \o Join(Map(Text, Unwrap(opt)), "; ") \o "; }">> ELSE <<>>

NumPart(name, opt) == IF IsSome(opt) THEN <<name \o " " \o ToDec(Unwrap(opt))>> ELSE <<>>
TextPart(name, opt) == IF IsSome(opt) THEN <<name \o " " \o Unwrap(opt)>> ELSE <<>>
QuotedPart(name, opt) ==
    IF IsSome(opt) THEN <<name \o " \"" \o Unwrap(opt) \o "\"">> ELSE <<>>
BoolPart(name, opt) ==
    IF IsSome(opt) THEN <<name \o " " \o (IF Unwrap(opt) THEN "yes" ELSE "no")>> ELSE <<>>
EnumPart(name, AsStr(_), opt) ==
    IF IsSome(opt) THEN <<name \o " " \o AsStr(Unwrap(opt))>> ELSE <<>>

\* value.trim_end().trim_end_matches(';').trim()
strip_raw(value) == trim(trim_end_matches(trim_end(value), ";"))

\* a serializer that prefers the typed list over the raw directive
AllowUpdatePart_list_first(c) ==
    IF IsSome(c.allow_update) /\ Unwrap(c.allow_update) # <<>>
    THEN IpListPart("allow-update", c.allow_update)
    ELSE IF IsSome(c.allow_update_raw)
    THEN <<"allow-update " \o strip_raw(Unwrap(c.allow_update_raw))>>
    ELSE <<>>

\* allow-update: the raw directive when present, otherwise the IP list
AllowUpdatePart(c) ==
    IF IsSome(c.allow_update_raw)
    THEN <<"allow-update " \o strip_raw(Unwrap(c.allow_update_raw))>>
    ELSE IpListPart("allow-update", c.allow_update)

\* the loop over raw_options, visiting the keys in the order `order`
RawOptionParts(c, order) ==
    [i \in 1..Len(order) |-> order[i] \o " " \o strip_raw(c.raw_options[order[i]])]

\* the parts pushed by to_rndc_block, in order
rndc_parts(c, order) ==
    <<"type " \o ZoneType_as_str(c.zone_type)>>
    \o QuotedPart("file", c.file)
    \o SpecListPart("primaries", PrimaryText, c.primaries)
    \o IpListPart("also-notify", c.also_notify)
    \o EnumPart("notify", NotifyMode_as_str, c.notify)
    \o IpListPart("allow-query", c.allow_query)
    \o IpListPart("allow-transfer", c.allow_transfer)
    \o AllowUpdatePart(c)
    \o IpListPart("allow-update-forwarding", c.allow_update_forwarding)
    \o IpListPart("allow-notify", c.allow_notify)
    \o NumPart("max-transfer-time-in", c.max_transfer_time_in)
    \o NumPart("max-transfer-time-out", c.max_transfer_time_out)
    \o NumPart("max-transfer-idle-in", c.max_transfer_idle_in)
    \o NumPart("max-transfer-idle-out", c.max_transfer_idle_out)
    \o TextPart("transfer-source", c.transfer_source)
    \o TextPart("transfer-source-v6", c.transfer_source_v6)
    \o TextPart("notify-source", c.notify_source)
    \o TextPart("notify-source-v6", c.notify_source_v6)
    \o (IF IsSome(c.update_policy)
        THEN <<"update-policy " \o strip_raw(Unwrap(c.update_policy))>> ELSE <<>>)
    \o QuotedPart("journal", c.journal)
    \o BoolPart("ixfr-from-differences", c.ixfr_from_differences)
    \o BoolPart("inline-signing", c.inline_signing)
    \o EnumPart("auto-dnssec", AutoDnssecMode_as_str, c.auto_dnssec)
    \o QuotedPart("key-directory", c.key_directory)
    \o NumPart("sig-validity-interval", c.sig_validity_interval)
    \o NumPart("dnskey-sig-validity", c.dnskey_sig_validity)
    \o EnumPart("forward", ForwardMode_as_str, c.forward)
    \o SpecListPart("forwarders", ForwarderText, c.forwarders)
    \o EnumPart("check-names", CheckNamesMode_as_str, c.check_names)
    \o EnumPart("check-mx", CheckNamesMode_as_str, c.check_mx)
    \o BoolPart("check-integrity", c.check_integrity)
    \o EnumPart("masterfile-format", MasterfileFormat_as_str, c.masterfile_format)
    \o NumPart("max-zone-ttl", c.max_zone_ttl)
    \o NumPart("max-refresh-time", c.max_refresh_time)
    \o NumPart("min-refresh-time", c.min_refresh_time)
    \o NumPart("max-retry-time", c.max_retry_time)
    \o NumPart("min-retry-time", c.min_retry_time)
    \o BoolPart("multi-master", c.multi_master)
    \o BoolPart("request-ixfr", c.request_ixfr)
    \o BoolPart("request-expire", c.request_expire)
    \o RawOptionParts(c, order)

\* to_rndc_block with raw_options iterated in the order `order`
to_rndc_block(c, order) == "{ " \o Join(rndc_parts(c, order), "; ") \o "; };"

\* the iteration orders a HashMap may give: every arrangement of its keys
KeyOrders(m) ==
    {o \in [1..Cardinality(DOMAIN m) -> DOMAIN m] :
        \A i, j \in DOMAIN o : i # j => o[i] # o[j]}

-----------------------------------------------------------------------------
(* zones.rs: modify_zone, the PATCH /api/v1/zones/{name} handler           *)

ZoneName == "x"

\* Vec<String> -> Result<Vec<IpAddr>, _>: Some(addresses), or None when one
\* of the strings is no IP address
parse_addrs(list) ==
    IF \A i \in 1..Len(list) : IsSome(ParseIpAddr(list[i]))
    THEN Some([i \in 1..Len(list) |-> Unwrap(ParseIpAddr(list[i]))])
    ELSE None

\* if addrs.is_empty() { None } else { Some(addrs) }
none_if_empty(addrs) == IF addrs = <<>> THEN None ELSE Some(addrs)

\* a handler that sets the typed allow-update list and keeps the raw text
apply_request_keeps_raw(c, req) ==
    LET au == parse_addrs(Unwrap(req.allow_update))
    IN IF IsNone(req.allow_update) THEN [ok |-> TRUE, val |-> c]
       ELSE IF IsNone(au) THEN [ok |-> FALSE, val |-> c]
       ELSE [ok |-> TRUE,
             val |-> [c EXCEPT !.allow_update = none_if_empty(Unwrap(au))]]

\* a block that leaves the field as it is when an address is not valid
update_list_skips_invalid(c, field, requested) ==
    IF IsNone(requested) THEN [ok |-> TRUE, val |-> c]
    ELSE With(parse_addrs(Unwrap(requested)), LAMBDA addrs :
             IF IsNone(addrs) THEN [ok |-> TRUE, val |-> c]
             ELSE [ok |-> TRUE,
                   val |-> [c EXCEPT ![field] = none_if_empty(Unwrap(addrs))]])

\* one `if let Some(list) = &request.<field>` block: [ok, val]; val is the
\* ZoneConfig with the field set to the addresses of the list
update_list(c, field, requested) ==
    IF IsNone(requested) THEN [ok |-> TRUE, val |-> c]
    ELSE With(parse_addrs(Unwrap(requested)), LAMBDA addrs :
             IF IsNone(addrs) THEN [ok |-> FALSE, val |-> c]
             ELSE [ok |-> TRUE,
                   val |-> [c EXCEPT ![field] = none_if_empty(Unwrap(addrs))]])

\* the three `if let Some(..) = &request.<field>` blocks: [ok, val]; val is
\* the updated ZoneConfig
apply_request(c, req) ==
    With(update_list(c, "also_notify", req.also_notify), LAMBDA r1 :
    With(update_list(r1.val, "allow_transfer", req.allow_transfer), LAMBDA r2 :
    With(update_list(r2.val, "allow_update", req.allow_update), LAMBDA r3 :
        IF ~r1.ok \/ ~r2.ok \/ ~r3.ok THEN [ok |-> FALSE, val |-> c]
        ELSE IF IsNone(req.allow_update) THEN r3
        ELSE [ok |-> TRUE, val |-> [r3.val EXCEPT !.allow_update_raw = None]])))

Failed(e) == [ok |-> FALSE, err |-> e]
Succeeded == [ok |-> TRUE, err |-> ""]

\* what a request leaves behind: the response, the block sent to modzone, the
\* zone as the server then holds it, and the ZoneConfig the block was made of
Outcome(resp, blk, nm, cfg) ==
    [response |-> resp, sent |-> blk, named |-> nm, config |-> cfg]

\* the whole handler.  srv: the server's showzone text of the zone (None: the
\* server does not know the zone); parsed: parse_showzone of that text;
\* rndcUp: the rndc channel answers; modOk: modzone succeeds; order: the
\* iteration order of raw_options
modify_zone(srv, parsed, hasFile, req, rndcUp, modOk, order) ==
    IF IsNone(req.also_notify) /\ IsNone(req.allow_transfer)
       /\ IsNone(req.allow_update)
    THEN Outcome(Failed("InvalidRequest"), None, srv, None)
    \* zonestatus fails with "not found" only when the server answers
    ELSE IF ~(hasFile \/ ~rndcUp \/ IsSome(srv))
    THEN Outcome(Failed("ZoneNotFound"), None, srv, None)
    ELSE IF ~rndcUp THEN Outcome(Failed("RndcError"), None, srv, None)
    ELSE IF IsNone(srv) THEN Outcome(Failed("ZoneNotFound"), None, srv, None)
    ELSE IF ~parsed.ok THEN Outcome(Failed("RndcError"), None, srv, None)
    ELSE With(apply_request(parsed.val, req), LAMBDA applied :
        IF ~applied.ok THEN Outcome(Failed("InvalidRequest"), None, srv, None)
        ELSE With(to_rndc_block(applied.val, order), LAMBDA rndc_config_block :
            IF ~modOk
            THEN Outcome(Failed("RndcError"), Some(rndc_config_block), srv,
                         Some(applied.val))
            ELSE Outcome(Succeeded, Some(rndc_config_block),
                         Some("zone \"" \o ZoneName \o "\" " \o rndc_config_block),
                         Some(applied.val))))

-----------------------------------------------------------------------------
(* The zones a server may hold when a PATCH arrives                        *)

MaxAddrs == 2

\* allow-update clauses of a stored zone, each with what it denotes: the
\* clause as written (without its terminating ';'), whether it refers to a
\* key, and the plain addresses it lists
AllowUpdateCases ==
    { [clause |-> "allow-update { key \"k\"; }", hasKey |-> TRUE, ips |-> <<>>],
      [clause |-> "allow-update { key \"a\"; key \"b\"; }", hasKey |-> TRUE, ips |-> <<>>],
      [clause |-> "allow-update { 10.0.0.1; key \"k\"; }", hasKey |-> TRUE,
       ips |-> <<"10.0.0.1">>],
      [clause |-> "allow-update { key \"k\"; 10.0.0.1; }", hasKey |-> TRUE,
       ips |-> <<"10.0.0.1">>],
      [clause |-> "allow-update { key \"k\"; { 10.0.0.1; }; }", hasKey |-> TRUE,
       ips |-> <<>>],
      [clause |-> "allow-update { !{ !10.0.0.1; any; }; key \"k\"; }", hasKey |-> TRUE,
       ips |-> <<>>],
      [clause |-> "allow-update { 10.0.0.1; 10.0.0.2; }", hasKey |-> FALSE,
       ips |-> <<"10.0.0.1", "10.0.0.2">>] }

AllowUpdateTexts == {""} \cup {q.clause \o "; " : q \in AllowUpdateCases}
AlsoNotifyTexts == {"", "also-notify { 10.0.0.1; }; "}
OtherTexts == {"", "zone-statistics full; "}

\* showzone output: zone "x" { type primary; file "f"; <statements> };
ZoneText(stmts) ==
    "zone \"" \o ZoneName \o "\" { type primary; file \"f\"; " \o stmts \o "};"

ServerZones ==
    {ZoneText(o[1] \o o[2] \o au \o o[3]) :
        o \in {p \in OtherTexts \X AlsoNotifyTexts \X OtherTexts :
                  Cardinality({i \in 1..3 : p[i] # ""}) <= 1},
        au \in AllowUpdateTexts}

\* zones whose allow-transfer or also-notify is not a plain list of addresses
RawListTexts ==
    {"allow-transfer { key \"k\"; }; ", "also-notify { 10.0.0.1 port 5353; }; "}
RawListZones ==
    {ZoneText(t) : t \in RawListTexts}
    \cup {ZoneText("also-notify { 10.0.0.1 port 5353; }; allow-transfer { key \"k\"; }; ")}

\* showzone output that is no zone block: cut short, or without the name
GarbledZones ==
    {"zone \"x\" { type primary; file \"f\"; also-notify { 10.0.0.1; ",
     "zone { type primary; file \"f\"; };"}

\* the allow-update clause a zone text holds, as a set of at most one case
ClauseOf(text) == {q \in AllowUpdateCases : Contains(text, q.clause \o ";")}

ReqAddrs == {"10.0.0.9", "::1", "bad"}

\* the lists of at most n distinct elements of S
Lists(S, n) ==
    {l \in UNION {[1..k -> S] : k \in 0..n} :
        \A i, j \in DOMAIN l : i # j => l[i] # l[j]}

\* the values of alsoNotify / allowTransfer in a request
FieldChoices == {None, Some(<<>>), Some(<<"10.0.0.9">>), Some(<<"bad">>)}

Requests ==
    [also_notify : FieldChoices, allow_transfer : {None, Some(<<"10.0.0.9">>)},
     allow_update : {None} \cup {Some(l) : l \in Lists(ReqAddrs, MaxAddrs)}]

NoRequest == [also_notify |-> None, allow_transfer |-> None, allow_update |-> None]
NoFs == <<>>

InitPatch ==
    /\ pc = "idle"
    /\ named \in {None} \cup {Some(z) : z \in ServerZones \cup RawListZones \cup GarbledZones}
    /\ zoneFile \in BOOLEAN
    /\ request = NoRequest
    /\ response = Succeeded
    /\ sent = None
    /\ config = None
    /\ block = ""
    /\ reparsed = None
    /\ input = ""
    /\ fs = NoFs
    /\ visited = {}
    /\ stack = <<>>
    /\ result = None

\* one PATCH request handled from start to end
ModifyZone ==
    /\ pc = "idle"
    /\ \E parsed \in {IF IsSome(named) THEN parse_showzone(Unwrap(named))
                       ELSE [ok |-> FALSE, val |-> "ParseError"]} :
       \E req \in Requests, rndcUp \in BOOLEAN,
          order \in (IF parsed.ok THEN KeyOrders(parsed.val.raw_options)
                     ELSE {<<>>}) :
       \E modOk \in {ok \in BOOLEAN : rndcUp \/ ok} :
       \E r \in {modify_zone(named, parsed, zoneFile, req, rndcUp, modOk, order)} :
            /\ request' = req
            /\ response' = r.response
            /\ sent' = r.sent
            /\ named' = r.named
            /\ input' = IF IsSome(named) THEN Unwrap(named) ELSE ""
            /\ config' = r.config
    /\ pc' = "done"
    /\ UNCHANGED <<zoneFile, block, reparsed, fs, visited, stack, result>>

NextPatch == ModifyZone

Spec == InitPatch /\ [][NextPatch]_vars

-----------------------------------------------------------------------------
(* parse_showzone and to_rndc_block applied to zone texts and to configs   *)

MaxStmts == 2
MaxRawOptions == 2

\* statements no typed matcher of parse_zone_statement accepts, each with the
\* directive name and the complete value it is written with
UnknownCases ==
    { [text |-> "zone-statistics full; ", name |-> "zone-statistics", value |-> "full"],
      [text |-> "dnssec-policy \"default\"; ", name |-> "dnssec-policy",
       value |-> "\"default\""],
      [text |-> "update-policy { grant k zonesub any; }; ", name |-> "update-policy",
       value |-> "{ grant k zonesub any; }"],
      [text |-> "allow-query { !{ !10.0.0.1; any; }; key \"k\"; }; ",
       name |-> "allow-query", value |-> "{ !{ !10.0.0.1; any; }; key \"k\"; }"] }

StatementTexts ==
    {u.text : u \in UnknownCases} \cup (AllowUpdateTexts \ {""})
    \cup (AlsoNotifyTexts \ {""})

IsAllowUpdate(t) == StartsWith(t, "allow-update ")

RECURSIVE Concat(_)
Concat(ss) == IF ss = <<>> THEN "" ELSE Head(ss) \o Concat(Tail(ss))

\* zone texts of at most MaxStmts distinct statements, at most one of them
\* an allow-update
ShowzoneTexts ==
    {ZoneText(Concat(l)) :
        l \in {m \in Lists(StatementTexts, MaxStmts) :
                 Cardinality({i \in DOMAIN m : IsAllowUpdate(m[i])}) <= 1}}

\* zone texts in legacy terms: type master / slave, masters, master-only
LegacyTexts ==
    {"zone \"x\" { type master; file \"f\"; };",
     "zone \"x\" { type slave; file \"f\"; masters { 10.0.0.1; }; };",
     "zone \"x\" { type slave; masters { 10.0.0.1 port 5353; 10.0.0.2; }; };",
     "zone \"x\" { type master; file \"f\"; notify master-only; };"}

MaxEntries == 3

\* entries of an allow-update body that refers to no key: addresses, named
\* access lists, a negated address, a nested list, and an access list whose
\* name begins with the letters of the keyword key
EntryCases ==
    { [text |-> "10.0.0.1", ip |-> TRUE], [text |-> "10.0.0.2", ip |-> TRUE],
      [text |-> "any", ip |-> FALSE], [text |-> "none", ip |-> FALSE],
      [text |-> "localhost", ip |-> FALSE], [text |-> "!10.0.0.3", ip |-> FALSE],
      [text |-> "{ 10.0.0.4; }", ip |-> FALSE], [text |-> "keyholders", ip |-> FALSE] }

EntryLists == Lists(EntryCases, MaxEntries)

\* the clause allow-update { e1; e2; ... }; of a list of entries
EntriesText(l) ==
    "allow-update { " \o Concat([i \in DOMAIN l |-> l[i].text \o "; "]) \o "}; "

\* the zone texts of the lists of entries, each with its list
EntryZones == {[text |-> ZoneText(EntriesText(l)), entries |-> l] : l \in EntryLists}
EntryTexts == {z.text : z \in EntryZones}

\* the token of the type statement of a zone text; "" for a text without one
TypeTokens == {"", "primary", "master", "slave", "hint", "static-stub", "bogus"}

\* zone "x" { [type <token>;] file "f"; };
TypeText(token) ==
    "zone \"" \o ZoneName \o "\" { "
    \o (IF token = "" THEN "" ELSE "type " \o token \o "; ") \o "file \"f\"; };"

TypeTexts == {TypeText(token) : token \in TypeTokens}

\* the unknown statements a zone text holds
UnknownIn(text) == {u \in UnknownCases : Contains(text, u.text)}

IpLists == {Some(<<"10.0.0.1">>), Some(<<"10.0.0.1", "::1">>)}
Numbers == {Some(0), Some(3600)}
Bools == {Some(TRUE), Some(FALSE)}
Quoted == {Some("f")}

\* values a typed field of ZoneConfig may be given
TypedValues(f) ==
    CASE f = "zone_type" -> ZoneTypes
      [] f \in {"file", "journal", "key_directory"} -> Quoted
      [] f = "primaries" ->
            {Some(<<[address |-> "10.0.0.1", port |-> None]>>),
             Some(<<[address |-> "10.0.0.1", port |-> Some(5353)],
                    [address |-> "::1", port |-> None]>>)}
      [] f \in {"also_notify", "allow_query", "allow_transfer", "allow_update",
                "allow_update_forwarding", "allow_notify"} -> IpLists
      [] f = "notify" -> {Some("Yes"), Some("No"), Some("Explicit"),
                          Some("MasterOnly"), Some("PrimaryOnly")}
      [] f \in {"max_transfer_time_in", "max_transfer_time_out",
                "max_transfer_idle_in", "max_transfer_idle_out",
                "sig_validity_interval", "dnskey_sig_validity", "max_zone_ttl",
                "max_refresh_time", "min_refresh_time", "max_retry_time",
                "min_retry_time"} -> Numbers
      [] f \in {"transfer_source", "notify_source"} -> {Some("10.0.0.1")}
      [] f \in {"transfer_source_v6", "notify_source_v6"} -> {Some("::1")}
      [] f = "update_policy" -> {Some("{ grant k zonesub any; }")}
      [] f \in {"ixfr_from_differences", "inline_signing", "check_integrity",
                "multi_master", "request_ixfr", "request_expire"} -> Bools
      [] f = "auto_dnssec" -> {Some("Off"), Some("Maintain"), Some("Create")}
      [] f = "forward" -> {Some("Only"), Some("First")}
      [] f = "forwarders" ->
            {Some(<<[address |-> "10.0.0.1", port |-> None, tls_config |-> None]>>),
             Some(<<[address |-> "10.0.0.1", port |-> Some(53), tls_config |-> None]>>)}
      [] f \in {"check_names", "check_mx"} -> {Some("Fail"), Some("Warn"), Some("Ignore")}
      [] f = "masterfile_format" -> {Some("Text"), Some("Raw"), Some("Map")}

\* configs holding typed directives only: a file and one more typed field
TypedConfigs ==
    UNION {{[[ZoneConfig_new(ZoneName, "Primary") EXCEPT !.file = Some("f")]
                 EXCEPT ![f] = v] : v \in TypedValues(f)} : f \in TypedFields}

RawCores == {"{ key \"k\"; }", "{ 10.0.0.1; key \"k\"; }"}
RawSuffixes == {"", "; ", ";;", "; ;"}
RawTexts == {c \o x : c \in RawCores, x \in RawSuffixes}

RawKeys == {"zone-statistics", "dnssec-policy"}
RawValues == {"full", "full;", "full; ;", "{ a; };"}

\* HashMaps of at most n entries
Maps(n) ==
    UNION {[K -> RawValues] : K \in {S \in SUBSET RawKeys : Cardinality(S) <= n}}

\* configs holding raw text: an allow-update text, a typed allow-update list
\* and raw_options in every combination
RawConfigs ==
    {[ZoneConfig_new(ZoneName, "Primary") EXCEPT
         !.allow_update = au, !.allow_update_raw = raw, !.raw_options = m] :
        au \in {None} \cup IpLists,
        raw \in {None} \cup {Some(t) : t \in RawTexts},
        m \in Maps(MaxRawOptions)}

\* the list fields of ZoneConfig and the directive each is written as
ListDirective ==
    [primaries |-> "primaries", also_notify |-> "also-notify",
     allow_query |-> "allow-query", allow_transfer |-> "allow-transfer",
     allow_update |-> "allow-update",
     allow_update_forwarding |-> "allow-update-forwarding",
     allow_notify |-> "allow-notify", forwarders |-> "forwarders"]

ListFields == DOMAIN ListDirective

\* configs with empty lists: one list field, or every list field, is
\* Some(vec![]); also next to a list that is not empty
EmptyListConfigs ==
    {[[ZoneConfig_new(ZoneName, "Primary") EXCEPT !.file = Some("f")]
          EXCEPT ![f] = Some(<<>>)] : f \in ListFields}
    \cup {[[ZoneConfig_new(ZoneName, "Secondary") EXCEPT ![f] = Some(<<>>)]
              EXCEPT !.allow_transfer = Some(<<"10.0.0.1">>)] :
             f \in ListFields \ {"allow_transfer"}}
    \cup {[x \in DOMAIN ZoneConfig_new(ZoneName, "Primary") |->
              IF x \in ListFields THEN Some(<<>>)
              ELSE ZoneConfig_new(ZoneName, "Primary")[x]]}

InitCodec ==
    /\ pc = "start"
    /\ named = None
    /\ zoneFile = FALSE
    /\ request = NoRequest
    /\ response = Succeeded
    /\ sent = None
    /\ config = None
    /\ block = ""
    /\ reparsed = None
    /\ input = ""
    /\ fs = NoFs
    /\ visited = {}
    /\ stack = <<>>
    /\ result = None

\* a caller builds a ZoneConfig value
Construct ==
    /\ pc = "start"
    /\ \E c \in TypedConfigs \cup RawConfigs \cup EmptyListConfigs : config' = Some(c)
    /\ pc' = "config"
    /\ UNCHANGED <<named, zoneFile, request, response, sent, block, reparsed,
                   input, fs, visited, stack, result>>

\* parse_showzone(text)
ParseShowzone ==
    /\ pc = "start"
    /\ \E text \in ShowzoneTexts \cup LegacyTexts \cup EntryTexts \cup TypeTexts :
       \E r \in {parse_showzone(text)} :
            /\ input' = text
            /\ config' = IF r.ok THEN Some(r.val) ELSE None
            /\ pc' = IF r.ok THEN "config" ELSE "failed"
    /\ UNCHANGED <<named, zoneFile, request, response, sent, block, reparsed,
                   fs, visited, stack, result>>

\* config.to_rndc_block()
Serialize ==
    /\ pc = "config"
    /\ \E order \in KeyOrders(Unwrap(config).raw_options) :
         block' = to_rndc_block(Unwrap(config), order)
    /\ pc' = "block"
    /\ UNCHANGED <<named, zoneFile, request, response, sent, config, reparsed,
                   input, fs, visited, stack, result>>

\* parse_showzone(format!("zone \"{}\" {}", name, block))
Reparse ==
    /\ pc = "block"
    /\ reparsed' = Some(parse_showzone("zone \"" \o ZoneName \o "\" " \o block))
    /\ pc' = "reparsed"
    /\ UNCHANGED <<named, zoneFile, request, response, sent, config, block,
                   input, fs, visited, stack, result>>

NextCodec == Construct \/ ParseShowzone \/ Serialize \/ Reparse

SpecCodec == InitCodec /\ [][NextCodec]_vars

-----------------------------------------------------------------------------
(* Properties of the PATCH handler (specification Spec)                    *)

\* the directive `allow-update { a; b; }` listing exactly the addresses of l
ListedDirective(l) == "allow-update { " \o Join(l, "; ") \o "; }"

\* the number of allow-update directives of a block
AllowUpdateCount(text) == Count("allow-update ", text)

HadKeyClause == \E q \in ClauseOf(input) : q.hasKey

\* C1: when the stored zone has a key-based allow-update and a PATCH changes
\* only also_notify and/or allow_transfer, the block built for modzone holds
\* the original allow-update clause verbatim, exactly once.
C1_KeyClausePreserved ==
    (pc = "done" /\ IsSome(sent) /\ IsNone(request.allow_update)) =>
        \A q \in ClauseOf(input) :
            q.hasKey => /\ Count(q.clause \o ";", Unwrap(sent)) = 1
                        /\ AllowUpdateCount(Unwrap(sent)) = 1

\* C7: when a PATCH supplies a non-empty list of valid addresses as
\* allowUpdate for a zone whose allow-update is key-based, the stored raw
\* text is cleared and the block sent to modzone holds one allow-update
\* directive, which lists exactly the supplied addresses and no key.
C7_KeyClauseReplaced ==
    (/\ pc = "done" /\ IsSome(sent) /\ HadKeyClause
     /\ IsSome(request.allow_update) /\ Unwrap(request.allow_update) # <<>>) =>
        /\ IsNone(Unwrap(config).allow_update_raw)
        /\ Unwrap(config).allow_update = request.allow_update
        /\ AllowUpdateCount(Unwrap(sent)) = 1
        /\ Contains(Unwrap(sent), ListedDirective(Unwrap(request.allow_update)) \o ";")

C7_Witness ==
    /\ pc = "done" /\ response.ok /\ IsSome(sent) /\ HadKeyClause
    /\ request.allow_update = Some(<<"::1", "10.0.0.9">>)
    /\ Contains(Unwrap(sent), "allow-update { ::1; 10.0.0.9; };")
    /\ ~Contains(Unwrap(sent), "key")

-----------------------------------------------------------------------------
(* Properties of parse_showzone and to_rndc_block (specification SpecCodec) *)

Cfg == Unwrap(config)
Built == input = ""
Parsed == input # ""

\* C2: a config of typed directives only (no raw_options, no raw allow-update
\* text) re-parses from its own block into a config with the same value in
\* every typed field.
C2_TypedRoundTrip ==
    (pc = "reparsed" /\ Cfg.raw_options = EmptyMap /\ IsNone(Cfg.allow_update_raw)) =>
        /\ Unwrap(reparsed).ok
        /\ \A f \in TypedFields : Unwrap(reparsed).val[f] = Cfg[f]

BothSet ==
    /\ pc \in {"block", "reparsed"}
    /\ IsSome(Cfg.allow_update) /\ Unwrap(Cfg.allow_update) # <<>>
    /\ IsSome(Cfg.allow_update_raw)

\* the raw text cut after its closing brace
CoreOf(raw) == CHOOSE c \in RawCores : StartsWith(raw, c)

\* the bodies the directive of a raw text may show: the raw text cut somewhere
\* after its closing brace
BodiesOf(raw) == {Take(raw, n) : n \in Len(CoreOf(raw))..Len(raw)}

\* the body of the block's only allow-update directive, when it is a body of raw
EmittedBodies(raw) ==
    {b \in BodiesOf(raw) : Contains(block, "; allow-update " \o b \o "; ")}

\* address ip is an entry of the address list text
AddressIn(text, ip) == Contains(text, " " \o ip \o ";")

C4_NoDoubleSemicolon ==
    pc \in {"block", "reparsed"} => ~Contains(block, ";;") /\ EndsWith(block, "};")

\* the body of a clause, from its opening brace through its closing brace
BodyOf(q) == Drop(q.clause, Len("allow-update "))

\* C5: a parsed allow-update body with a key reference is stored whole in
\* allow_update_raw with the typed list absent or empty; a body without one
\* leaves allow_update_raw absent and puts its addresses in allow_update.
C5_KeyBodyCaptured ==
    (pc = "config" /\ Parsed) =>
        \A q \in ClauseOf(input) :
            IF q.hasKey
            THEN /\ IsSome(Cfg.allow_update_raw)
                 /\ StartsWith(Unwrap(Cfg.allow_update_raw), BodyOf(q))
                 /\ Cfg.allow_update \in {None, Some(<<>>)}
            ELSE /\ IsNone(Cfg.allow_update_raw)
                 /\ Cfg.allow_update = Some(q.ips)

HasOption(c, u) == u.name \in DOMAIN c.raw_options /\ c.raw_options[u.name] = u.value

\* C6: every statement no typed matcher accepts is stored in raw_options
\* under its name with its complete value, is re-emitted as "<name> <value>",
\* and is the same raw_options entry after the block is parsed again.
C6_UnknownPreserved ==
    Parsed =>
        \A u \in UnknownIn(input) :
            /\ pc \in {"config", "block", "reparsed"} => HasOption(Cfg, u)
            /\ pc \in {"block", "reparsed"} =>
                 Contains(block, "; " \o u.name \o " " \o u.value \o "; ")
            /\ pc = "reparsed" =>
                 Unwrap(reparsed).ok /\ HasOption(Unwrap(reparsed).val, u)

-----------------------------------------------------------------------------
(* rndc_conf_parser.rs: parse_rndc_conf_file and its include resolution    *)

MaxStatements == 3

\* the directory relative paths are resolved against by the file system
Cwd == "/etc"

\* the files that may exist, by canonical path
ConfFiles == {"/etc/a", "/etc/b", "/etc/c"}

\* the path handed to parse_rndc_conf_file
RootPaths == {"/etc/a", "a"}

\* the paths include statements are written with
IncludePaths == {"./a", "/etc/a", "./b", "/etc/b", "./c"}

\* Path::is_absolute
is_absolute(p) == StartsWith(p, "/")

\* a directory path without trailing separators and "." components
RECURSIVE TrimDir(_)
TrimDir(p) ==
    IF Len(p) > 1 /\ EndsWith(p, "/") THEN TrimDir(Take(p, Len(p) - 1))
    ELSE IF Len(p) > 2 /\ EndsWith(p, "/.") THEN TrimDir(Take(p, Len(p) - 2))
    ELSE p

\* Path::parent of a path that names a file
parent(p) ==
    LET slashes == Occurrences("/", p)
        last == CHOOSE i \in slashes : \A j \in slashes : j <= i
    IN IF slashes = {} THEN "" ELSE TrimDir(Take(p, last + 1))

\* Path::join with a relative path
join(base, rel) == IF base = "" THEN rel ELSE base \o "/" \o rel

\* the components of a path that name something: no "" and no "."
RECURSIVE Components(_)
Components(parts) ==
    IF parts = <<>> THEN <<>>
    ELSE IF Head(parts) \in {"", "."} THEN Components(Tail(parts))
    ELSE <<Head(parts)>> \o Components(Tail(parts))

\* the absolute path without "." components that Path::canonicalize returns
\* when the file exists
CanonicalOf(p) ==
    "/" \o Join(Components(Split(IF is_absolute(p) THEN p ELSE join(Cwd, p), "/")), "/")

\* the statements of a file, as parse_statement tells them apart; Malformed
\* is text that is no statement
IncludeStmt(path) == [t |-> "Include", path |-> path]
KeyStmt(name, file) ==
    [t |-> "Key", name |-> name,
     key |-> [name |-> name, algorithm |-> "hmac-sha256", secret |-> file]]
ServerStmt(addr, file) ==
    [t |-> "Server", addr |-> addr,
     server |-> [address |-> addr, key |-> Some(file), port |-> None,
                 addresses |-> None]]
OptionsStmt(file) ==
    [t |-> "Options",
     options |-> [default_server |-> Some(file), default_key |-> None,
                  default_port |-> None]]
\* an options block that sets default-port only, to a port of the file's own
PortOf == ("/etc/a" :> 953) @@ ("/etc/b" :> 954) @@ ("/etc/c" :> 8953)
PortOptionsStmt(file) ==
    [t |-> "Options",
     options |-> [default_server |-> None, default_key |-> None,
                  default_port |-> Some(PortOf[file])]]
Malformed == [t |-> "Malformed"]

\* what a file may hold: its keys, servers and options carry the file's name
StatementPool(file) ==
    {IncludeStmt(ip) : ip \in IncludePaths}
    \cup {KeyStmt("k", file), ServerStmt("s", file), OptionsStmt(file),
          PortOptionsStmt(file), Malformed}

Seqs(S, n) == UNION {[1..k -> S] : k \in 0..n}

\* OptionsBlock::default and RndcConfFile::new
OptionsBlock_default ==
    [default_server |-> None, default_key |-> None, default_port |-> None]
RndcConfFile_new ==
    [keys |-> EmptyMap, servers |-> EmptyMap, options |-> OptionsBlock_default,
     includes |-> <<>>]

\* many0(ws(parse_statement)): the statements before the first text that is
\* no statement
RECURSIVE many0_conf(_)
many0_conf(items) ==
    IF items = <<>> \/ Head(items).t = "Malformed" THEN <<>>
    ELSE <<Head(items)>> \o many0_conf(Tail(items))

\* a match that keeps the first key or server of a name
conf_statement_keeps_first(conf, st) ==
    CASE st.t = "Include" -> [conf EXCEPT !.includes = Append(@, st.path)]
      [] st.t = "Key" ->
            [conf EXCEPT !.keys = IF st.name \in DOMAIN @ THEN @
                                  ELSE MapInsert(@, st.name, st.key)]
      [] st.t = "Server" ->
            [conf EXCEPT !.servers = IF st.addr \in DOMAIN @ THEN @
                                     ELSE MapInsert(@, st.addr, st.server)]
      [] st.t = "Options" ->
            [conf EXCEPT !.options =
                [default_server |-> IF IsSome(st.options.default_server)
                                    THEN st.options.default_server
                                    ELSE @.default_server,
                 default_key |-> IF IsSome(st.options.default_key)
                                 THEN st.options.default_key ELSE @.default_key,
                 default_port |-> IF IsSome(st.options.default_port)
                                  THEN st.options.default_port ELSE @.default_port]]

\* a match in which an options block replaces the options as a whole
conf_statement_whole_options(conf, st) ==
    CASE st.t = "Include" -> [conf EXCEPT !.includes = Append(@, st.path)]
      [] st.t = "Key" -> [conf EXCEPT !.keys = MapInsert(@, st.name, st.key)]
      [] st.t = "Server" -> [conf EXCEPT !.servers = MapInsert(@, st.addr, st.server)]
      [] st.t = "Options" -> [conf EXCEPT !.options = st.options]

\* the match of parse_rndc_conf_internal that stores one statement
conf_statement(conf, st) ==
    CASE st.t = "Include" -> [conf EXCEPT !.includes = Append(@, st.path)]
      [] st.t = "Key" -> [conf EXCEPT !.keys = MapInsert(@, st.name, st.key)]
      [] st.t = "Server" -> [conf EXCEPT !.servers = MapInsert(@, st.addr, st.server)]
      [] st.t = "Options" ->
            [conf EXCEPT !.options =
                [default_server |-> IF IsSome(st.options.default_server)
                                    THEN st.options.default_server
                                    ELSE @.default_server,
                 default_key |-> IF IsSome(st.options.default_key)
                                 THEN st.options.default_key ELSE @.default_key,
                 default_port |-> IF IsSome(st.options.default_port)
                                  THEN st.options.default_port ELSE @.default_port]]

RECURSIVE conf_statements(_, _)
conf_statements(conf, stmts) ==
    IF stmts = <<>> THEN conf
    ELSE conf_statements(conf_statement(conf, Head(stmts)), Tail(stmts))

\* parse_rndc_conf_str: always Ok, with the document of the statements read
parse_rndc_conf_str(items) == conf_statements(RndcConfFile_new, many0_conf(items))

\* entry(name).insert(value) for every entry of `from`
or_insert_all_replaces(into, from) ==
    [x \in (DOMAIN into) \cup (DOMAIN from) |->
        IF x \in DOMAIN from THEN from[x] ELSE into[x]]

\* entry(name).or_insert(value) for every entry of `from`
or_insert_all(into, from) ==
    [x \in (DOMAIN into) \cup (DOMAIN from) |->
        IF x \in DOMAIN into THEN into[x] ELSE from[x]]

\* a merge in which the included file's keys and servers replace the
\* including file's
merge_included_overwrites(conf, included_conf, resolved) ==
    [keys |-> or_insert_all(included_conf.keys, conf.keys),
     servers |-> or_insert_all(included_conf.servers, conf.servers),
     options |-> conf.options,
     includes |-> Append(conf.includes, resolved)]

\* a merge that takes the included options only when the including file has
\* no options at all
merge_included_whole_options(conf, included_conf, resolved) ==
    [keys |-> or_insert_all(conf.keys, included_conf.keys),
     servers |-> or_insert_all(conf.servers, included_conf.servers),
     options |-> IF conf.options = OptionsBlock_default
                 THEN included_conf.options ELSE conf.options,
     includes |-> Append(conf.includes, resolved)]

\* the merge of one included document into the including one, and the push
\* of the resolved path
merge_included(conf, included_conf, resolved) ==
    [keys |-> or_insert_all(conf.keys, included_conf.keys),
     servers |-> or_insert_all(conf.servers, included_conf.servers),
     options |->
        [default_server |-> IF IsNone(conf.options.default_server)
                            THEN included_conf.options.default_server
                            ELSE conf.options.default_server,
         default_key |-> IF IsNone(conf.options.default_key)
                         THEN included_conf.options.default_key
                         ELSE conf.options.default_key,
         default_port |-> IF IsNone(conf.options.default_port)
                          THEN included_conf.options.default_port
                          ELSE conf.options.default_port],
     includes |-> Append(conf.includes, resolved)]

\* the path an include statement of the file at `path` resolves to
resolved_path(path, include_path) ==
    IF is_absolute(include_path) THEN include_path
    ELSE join(parent(path), include_path)

\* every path the resolver can be handed: a root path, or the path an
\* include resolves to below at most three nested files
Resolved(P) == P \cup {resolved_path(p, ip) : p \in P, ip \in IncludePaths}
FilePaths == Resolved(Resolved(RootPaths))
Paths == Resolved(FilePaths)

\* the resolved path of every include of every file that can be read
resolve == [p \in FilePaths |-> [ip \in IncludePaths |-> resolved_path(p, ip)]]

\* path.canonicalize() of a path that exists
canonicalize == [p \in Paths |-> CanonicalOf(p)]

\* what is not yet known of the file system: a file's status (missing, or
\* there but unreadable, or a readable file) and its text are fixed when the
\* resolver first meets them
UnknownFs == [f \in ConfFiles |-> [status |-> "unknown", items |-> <<>>]]

RECURSIVE SumLen(_, _)
SumLen(files, f) ==
    IF files = {} THEN 0
    ELSE LET x == CHOOSE x \in files : TRUE
         IN Len(f[x].items) + SumLen(files \ {x}, f)

ConfErr(kind, path) == [ok |-> FALSE, err |-> kind, path |-> path, conf |-> RndcConfFile_new]
ConfOk(conf) == [ok |-> TRUE, err |-> "", path |-> "", conf |-> conf]

InitInclude ==
    /\ pc = "start"
    /\ named = None
    /\ zoneFile = FALSE
    /\ request = NoRequest
    /\ response = Succeeded
    /\ sent = None
    /\ config = None
    /\ block = ""
    /\ reparsed = None
    /\ input = ""
    /\ fs = UnknownFs
    /\ visited = {}
    /\ stack = <<>>
    /\ result = None

\* the `?` of an error: every pending call returns it
Abort(e) ==
    /\ result' = Some(e)
    /\ stack' = <<>>
    /\ pc' = "returned"

\* a resolver that reads a file once and skips it when it is included again
revisit_skips(canonical_path, callers) ==
    /\ stack' = [callers EXCEPT ![Len(callers)].includes = Tail(@)]
    /\ pc' = "running"
    /\ UNCHANGED <<fs, visited, result>>

\* the arrival at a file whose canonical path is in visited
revisit(canonical_path, callers) ==
    /\ Abort(ConfErr("CircularInclude", canonical_path))
    /\ UNCHANGED <<fs, visited>>

\* parse_rndc_conf_file_recursive(path, visited) from its entry to the start
\* of its loop over the includes, called below the frames `callers`
EnterFile(path, callers) ==
    LET canonical_path == canonicalize[path]
        known == fs[canonical_path].status
    IN \/ /\ known \in {"unknown", "missing"}
          /\ Abort(ConfErr("FileNotFound", path))
          /\ fs' = [fs EXCEPT ![canonical_path].status = "missing"]
          /\ UNCHANGED visited
       \/ /\ known # "missing"
          /\ canonical_path \in visited
          /\ revisit(canonical_path, callers)
       \/ /\ known \in {"unknown", "unreadable"}
          /\ canonical_path \notin visited
          /\ Abort(ConfErr("IoError", path))
          /\ fs' = [fs EXCEPT ![canonical_path].status = "unreadable"]
          /\ visited' = visited \cup {canonical_path}
       \/ /\ known \in {"unknown", "file"}
          /\ canonical_path \notin visited
          /\ \E items \in (IF known = "file" THEN {fs[canonical_path].items}
                           ELSE Seqs(StatementPool(canonical_path),
                                     MaxStatements - SumLen(ConfFiles, fs))) :
               LET conf == parse_rndc_conf_str(items)
               IN /\ fs' = [fs EXCEPT ![canonical_path] =
                                        [status |-> "file", items |-> items]]
                  /\ visited' = visited \cup {canonical_path}
                  /\ stack' = Append(callers,
                                     [path |-> path,
                                      conf |-> [conf EXCEPT !.includes = <<>>],
                                      includes |-> conf.includes])
                  /\ pc' = "running"
                  /\ UNCHANGED result

Frame == stack[Len(stack)]

\* parse_rndc_conf_file(path)
Begin ==
    /\ pc = "start"
    /\ \E path \in RootPaths : input' = path /\ EnterFile(path, <<>>)
    /\ UNCHANGED <<named, zoneFile, request, response, sent, config, block, reparsed>>

\* the loop meets an include: resolve its path and call
Descend ==
    /\ pc = "running"
    /\ Frame.includes # <<>>
    /\ EnterFile(resolve[Frame.path][Head(Frame.includes)], stack)
    /\ UNCHANGED <<named, zoneFile, request, response, sent, config, block,
                   reparsed, input>>

\* a resolver that takes a file out of visited when its resolution returns
Return_forgets ==
    /\ pc = "running"
    /\ Frame.includes = <<>>
    /\ Len(stack) > 1
    /\ LET caller == stack[Len(stack) - 1]
           merged == [caller EXCEPT
                        !.conf = merge_included(caller.conf, Frame.conf, Frame.path),
                        !.includes = Tail(caller.includes)]
       IN stack' = Append(SubSeq(stack, 1, Len(stack) - 2), merged)
    /\ visited' = visited \ {canonicalize[Frame.path]}
    /\ UNCHANGED <<pc, named, zoneFile, request, response, sent, config, block,
                   reparsed, input, fs, result>>

\* an included file is done: Ok(conf) goes to the caller, which merges it
Return ==
    /\ pc = "running"
    /\ Frame.includes = <<>>
    /\ Len(stack) > 1
    /\ LET caller == stack[Len(stack) - 1]
           merged == [caller EXCEPT
                        !.conf = merge_included(caller.conf, Frame.conf, Frame.path),
                        !.includes = Tail(caller.includes)]
       IN stack' = Append(SubSeq(stack, 1, Len(stack) - 2), merged)
    /\ UNCHANGED <<pc, named, zoneFile, request, response, sent, config, block,
                   reparsed, input, fs, visited, result>>

\* the root file is done: parse_rndc_conf_file returns Ok(conf)
Finish ==
    /\ pc = "running"
    /\ Frame.includes = <<>>
    /\ Len(stack) = 1
    /\ result' = Some(ConfOk(Frame.conf))
    /\ stack' = <<>>
    /\ pc' = "returned"
    /\ UNCHANGED <<named, zoneFile, request, response, sent, config, block,
                   reparsed, input, fs, visited>>

NextInclude == Begin \/ Descend \/ Return \/ Finish

SpecInclude == InitInclude /\ [][NextInclude]_vars

\* the resolver is sequential code: a step that can be taken is taken
FairInclude == SpecInclude /\ WF_vars(NextInclude)

-----------------------------------------------------------------------------
(* Properties of the include resolution (SpecInclude, FairInclude)         *)

Returned == pc = "returned"
Res == Unwrap(result)

\* the file a path of the model names: all files lie in one directory and
\* are told apart by their one-letter names
FileOf == [p \in STRING |-> "/etc/" \o LastCh(p)]

RootFile == "/etc/a"

\* the files read so far and the include statements read in them
ReadFiles == {f \in ConfFiles : fs[f].status = "file"}
IncludesRead(f) ==
    LET stmts == many0_conf(fs[f].items)
    IN {i \in DOMAIN stmts : stmts[i].t = "Include"}
IncludedBy(f) ==
    IF f \in ReadFiles
    THEN {FileOf[many0_conf(fs[f].items)[i].path] : i \in IncludesRead(f)}
    ELSE {}

RECURSIVE Closure(_)
Closure(S) ==
    LET T == S \cup UNION {IncludedBy(f) : f \in S}
    IN IF T = S THEN S ELSE Closure(T)

\* a cycle of includes can be reached from the root file
CycleReachable ==
    \E f \in Closure({RootFile}) : f \in Closure(IncludedBy(f))

NoFileFails == \A f \in ConfFiles : fs[f].status \notin {"missing", "unreadable"}

C8_CycleIsErrorState ==
    (Returned /\ CycleReachable) =>
        /\ ~Res.ok
        /\ Res.err \in {"CircularInclude", "FileNotFound", "IoError"}
        /\ NoFileFails => Res.err = "CircularInclude"

\* C8: parse_rndc_conf_file returns for every file system, and when a cycle
\* of includes is reachable from the root file it returns an error, never
\* Ok: CircularInclude unless a missing or unreadable file is met.  A file
\* includes the files named by the include statements the parser reads in it.
C8_TerminatesCycleIsError == <>Returned /\ []C8_CycleIsErrorState

C8_Witness ==
    /\ Returned /\ input = "a"
    /\ fs["/etc/a"].items = <<IncludeStmt("./b")>>
    /\ fs["/etc/b"].items = <<IncludeStmt("/etc/a")>>
    /\ ~Res.ok /\ Res.err = "CircularInclude" /\ Res.path = "/etc/a"

\* an included file that cannot be resolved: missing, unreadable, or holding
\* text that is no statement
Failing(f) ==
    \/ fs[f].status \in {"missing", "unreadable"}
    \/ fs[f].status = "file" /\ \E i \in DOMAIN fs[f].items : fs[f].items[i] = Malformed

\* the number of include statements read that name f
Arrivals(f) ==
    Cardinality({<<g, i>> \in ReadFiles \X (1..MaxStatements + 1) :
                    i \in IncludesRead(g) /\ FileOf[many0_conf(fs[g].items)[i].path] = f})
Revisited(f) == Arrivals(f) + (IF f = RootFile THEN 1 ELSE 0) >= 2

\* C9: when an included file fails (it is missing, revisited or unreadable,
\* or its text does not parse), parse_rndc_conf_file returns an error and no
\* document.
C9_IncludeErrorAborts ==
    (Returned /\ \E f \in ConfFiles :
                    Revisited(f) \/ (f # RootFile /\ Failing(f))) => ~Res.ok

OwnDoc(f) == parse_rndc_conf_str(fs[f].items)

\* the documents under construction and the one returned, each with the
\* file it is the document of
Docs ==
    {[file |-> FileOf[stack[i].path], conf |-> stack[i].conf] : i \in DOMAIN stack}
    \cup (IF Returned /\ Res.ok THEN {[file |-> FileOf[input], conf |-> Res.conf]}
          ELSE {})

\* the definitions of name k in the files other than f
OtherDefs(f, k, Field(_)) ==
    {Field(OwnDoc(h))[k] : h \in {g \in ReadFiles \ {f} : k \in DOMAIN Field(OwnDoc(g))}}

KeysOf(doc) == doc.keys
ServersOf(doc) == doc.servers

\* in document d, the map Field holds the including file's own entries, and
\* every entry of an included file already merged, unchanged
MergedRight(d, Field(_)) ==
    /\ \A k \in DOMAIN Field(OwnDoc(d.file)) :
         k \in DOMAIN Field(d.conf) /\ Field(d.conf)[k] = Field(OwnDoc(d.file))[k]
    /\ \A i \in DOMAIN d.conf.includes :
         \A k \in DOMAIN Field(OwnDoc(FileOf[d.conf.includes[i]])) :
            /\ k \in DOMAIN Field(d.conf)
            /\ k \notin DOMAIN Field(OwnDoc(d.file)) =>
                 Field(d.conf)[k] \in OtherDefs(d.file, k, Field)

\* C10: a key name or server address that the including file defines keeps
\* the including file's definition, wherever the include statement stands;
\* a name only included files define is added with an included definition.
C10_IncluderWins ==
    \A d \in Docs : MergedRight(d, KeysOf) /\ MergedRight(d, ServersOf)

C10_Witness ==
    /\ Returned /\ Res.ok
    /\ fs["/etc/a"].items = <<IncludeStmt("./b"), KeyStmt("k", "/etc/a")>>
    /\ fs["/etc/b"].items = <<KeyStmt("k", "/etc/b")>>
    /\ Res.conf.keys["k"].secret = "/etc/a"
    /\ Res.conf.includes = <<"./b">>

-----------------------------------------------------------------------------
(* Include merge of the options block                                      *)

OptionFields == {"default_server", "default_key", "default_port"}

\* the files whose documents were merged into document d, directly
MergedFiles(d) == {FileOf[d.conf.includes[i]] : i \in DOMAIN d.conf.includes}

\* in document d, option field f holds the including file's value when that
\* file sets it; otherwise it holds a value set by another file, and it is
\* set whenever a merged included file sets it
OptionMergedRight(d, f) ==
    IF IsSome(OwnDoc(d.file).options[f])
    THEN d.conf.options[f] = OwnDoc(d.file).options[f]
    ELSE /\ IsSome(d.conf.options[f]) =>
              \E h \in ReadFiles \ {d.file} :
                  d.conf.options[f] = OwnDoc(h).options[f]
         /\ (\E h \in MergedFiles(d) : IsSome(OwnDoc(h).options[f])) =>
              IsSome(d.conf.options[f])

\* C11: the options of an including and an included file are merged field by
\* field: a field the including file sets keeps its value, a field it leaves
\* unset takes the included file's value.
C11_OptionsMergedPerField ==
    \A d \in Docs : \A f \in OptionFields : OptionMergedRight(d, f)

C11_Witness ==
    /\ Returned /\ Res.ok
    /\ fs["/etc/a"].items = <<IncludeStmt("./b"), OptionsStmt("/etc/a")>>
    /\ fs["/etc/b"].items = <<PortOptionsStmt("/etc/b")>>
    /\ Res.conf.options.default_server = Some("/etc/a")
    /\ Res.conf.options.default_port = Some(954)

-----------------------------------------------------------------------------
(* rndc_conf_parser.rs on text: the nom parsers of the configuration file. *)
(* Parsers of this file that share a name with one of rndc_parser.rs carry *)
(* the prefix conf_.                                                       *)

\* take_while(|c| c != '\n'): the rest of the line is dropped
skip_line(s) ==
    With(Find("\n", s), LAMBDA i : IF i < 0 THEN "" ELSE Drop(s, i))

line_comment(s) == IF StartsWith(s, "//") THEN Ok(skip_line(Drop(s, 2)), <<>>) ELSE Err

hash_comment(s) == IF StartsWith(s, "#") THEN Ok(skip_line(Drop(s, 1)), <<>>) ELSE Err

block_comment(s) ==
    With(tag("/*", s), LAMBDA open :
    With(take_until("*/", open.rest), LAMBDA body :
        IF open.ok /\ body.ok THEN Ok(Drop(body.rest, 2), <<>>) ELSE Err))

comment(s) == first_ok(<<line_comment(s), hash_comment(s), block_comment(s)>>)

\* many0(alt((value((), multispace1), comment))): the remaining input
RECURSIVE skip_ws(_)
skip_ws(s) ==
    With(SpanLen(s, Whitespace), LAMBDA n :
        IF n > 0 THEN skip_ws(Drop(s, n))
        ELSE With(comment(s), LAMBDA c :
                  IF c.ok THEN skip_ws(c.rest) ELSE s))

\* ws(inner): whitespace and comments skipped on both sides
conf_ws(P(_), s) ==
    With(P(skip_ws(s)), LAMBDA r :
        IF r.ok THEN Ok(skip_ws(r.rest), r.val) ELSE Err)

conf_ws_tag(t, s) == conf_ws(LAMBDA x : tag(t, x), s)

conf_semicolon(s) == conf_ws_tag(";", s)

escaped_char(s) ==
    IF Len(s) >= 2 /\ Take(s, 1) = "\\"
    THEN With(SubSeq(s, 2, 2), LAMBDA c :
             CASE c = "\"" -> Ok(Drop(s, 2), "\"")
               [] c = "\\" -> Ok(Drop(s, 2), "\\")
               [] c = "n" -> Ok(Drop(s, 2), "\n")
               [] c = "r" -> Ok(Drop(s, 2), "\r")
               [] c = "t" -> Ok(Drop(s, 2), "\t")
               [] OTHER -> Err)
    ELSE Err

\* the characters of a string: everything but the ones a set excludes
RECURSIVE SpanNot(_, _)
SpanNot(s, C) ==
    IF s = "" \/ Take(s, 1) \in C THEN 0 ELSE 1 + SpanNot(Drop(s, 1), C)

\* many0(alt((escaped_char, take_while1(not '"' and not '\')))) joined:
\* <<text, rest>>
RECURSIVE string_parts(_)
string_parts(s) ==
    With(escaped_char(s), LAMBDA e :
        IF e.ok
        THEN With(string_parts(e.rest), LAMBDA m : <<e.val \o m[1], m[2]>>)
        ELSE With(SpanNot(s, {"\"", "\\"}), LAMBDA n :
                 IF n = 0 THEN <<"", s>>
                 ELSE With(string_parts(Drop(s, n)), LAMBDA m :
                          <<Take(s, n) \o m[1], m[2]>>)))

conf_quoted_string(s) ==
    With(tag("\"", s), LAMBDA q1 :
    With(string_parts(q1.rest), LAMBDA parts :
    With(tag("\"", parts[2]), LAMBDA q2 :
        IF q1.ok /\ q2.ok THEN Ok(q2.rest, parts[1]) ELSE Err)))

conf_identifier(s) == take_while1(Alpha \cup Digit \cup {"_", "-", ".", ":"}, s)

\* recognize(digit1 . digit1 . digit1 . digit1), then IpAddr::from_str
ipv4_addr(s) ==
    With(take_while1(Digit, s), LAMBDA a :
    With(tag(".", a.rest), LAMBDA d1 :
    With(take_while1(Digit, d1.rest), LAMBDA b :
    With(tag(".", b.rest), LAMBDA d2 :
    With(take_while1(Digit, d2.rest), LAMBDA c :
    With(tag(".", c.rest), LAMBDA d3 :
    With(take_while1(Digit, d3.rest), LAMBDA d :
        IF a.ok /\ d1.ok /\ b.ok /\ d2.ok /\ c.ok /\ d3.ok /\ d.ok
        THEN With(ParseIpAddr(Take(s, Len(s) - Len(d.rest))), LAMBDA addr :
                 IF IsSome(addr) THEN Ok(d.rest, Unwrap(addr)) ELSE Err)
        ELSE Err)))))))

ipv6_addr(s) ==
    With(take_while1(HexDigit \cup {":"}, s), LAMBDA a :
        IF ~a.ok THEN Err
        ELSE IF ~Contains(a.val, "::") /\ Count(":", a.val) < 2 THEN Err
        ELSE With(ParseIpAddr(a.val), LAMBDA addr :
                 IF IsSome(addr) THEN Ok(a.rest, Unwrap(addr)) ELSE Err))

conf_ip_addr(s) == first_ok(<<ipv6_addr(s), ipv4_addr(s)>>)

\* the port a run of digits that does not fit a u16 is read as
DefaultPort == 953

\* map(digit1, |s| s.parse::<u16>().unwrap_or(953))
port_number(s) ==
    With(take_while1(Digit, s), LAMBDA num :
        IF ~num.ok THEN Err
        ELSE With(ParseU16(num.val), LAMBDA p :
                 Ok(num.rest, IF IsSome(p) THEN Unwrap(p) ELSE DefaultPort)))

\* ServerAddress: IpAddr(addr) or Hostname(name); Display gives the text
server_address(s) ==
    With(conf_ip_addr(s), LAMBDA ip :
        IF ip.ok THEN Ok(ip.rest, [kind |-> "IpAddr", text |-> ip.val])
        ELSE With(conf_identifier(s), LAMBDA h :
                 IF h.ok THEN Ok(h.rest, [kind |-> "Hostname", text |-> h.val])
                 ELSE Err))

\* many0(parser): <<values, rest>>; it stops, without failing, at the first
\* input the parser rejects
RECURSIVE many0(_, _)
many0(P(_), s) ==
    With(P(s), LAMBDA r :
        IF r.ok
        THEN With(many0(P, r.rest), LAMBDA m : <<<<r.val>> \o m[1], m[2]>>)
        ELSE <<<<>>, s>>)

\* ws(tag(keyword)), ws(value), semicolon: one field of a block
conf_field(keyword, kind, V(_), s) ==
    With(conf_ws_tag(keyword, s), LAMBDA kw :
    With(conf_ws(V, kw.rest), LAMBDA v :
    With(conf_semicolon(v.rest), LAMBDA semi :
        IF kw.ok /\ v.ok /\ semi.ok THEN Ok(semi.rest, Stmt(kind, v.val)) ELSE Err)))

\* delimited(ws(char('{')), many0(field), ws(tag("};")))
conf_block(F(_), s) ==
    With(conf_ws_tag("{", s), LAMBDA open :
    With(many0(F, open.rest), LAMBDA fields :
    With(conf_ws_tag("};", fields[2]), LAMBDA close :
        IF open.ok /\ close.ok THEN Ok(close.rest, fields[1]) ELSE Err)))

\* the value of the last field of a kind, or a default: the for loop over the
\* fields of a block assigns each field in turn
RECURSIVE last_of(_, _, _)
last_of(fields, kind, default) ==
    IF fields = <<>> THEN default
    ELSE IF fields[Len(fields)].kind = kind THEN fields[Len(fields)].val
    ELSE last_of(Take(fields, Len(fields) - 1), kind, default)

last_some(fields, kind) ==
    last_of([i \in DOMAIN fields |-> Stmt(fields[i].kind, Some(fields[i].val))],
            kind, None)

parse_algorithm_field(s) == conf_field("algorithm", "Algorithm", conf_identifier, s)

parse_secret_field(s) == conf_field("secret", "Secret", conf_quoted_string, s)

parse_key_field(s) == first_ok(<<parse_algorithm_field(s), parse_secret_field(s)>>)

\* the value of the first field of a kind, or a default
RECURSIVE first_of(_, _, _)
first_of(fields, kind, default) ==
    IF fields = <<>> THEN default
    ELSE IF Head(fields).kind = kind THEN Head(fields).val
    ELSE first_of(Tail(fields), kind, default)

\* a key block parser in which the first occurrence of a field wins
parse_key_block_first_wins(s) ==
    With(conf_ws_tag("key", s), LAMBDA kw :
    With(conf_ws(conf_quoted_string, kw.rest), LAMBDA name :
    With(conf_block(parse_key_field, name.rest), LAMBDA fields :
        IF kw.ok /\ name.ok /\ fields.ok
        THEN Ok(fields.rest,
                [t |-> "Key", name |-> name.val,
                 key |-> [name |-> name.val,
                          algorithm |-> first_of(fields.val, "Algorithm", "hmac-sha256"),
                          secret |-> first_of(fields.val, "Secret", "")]])
        ELSE Err)))

\* (name, KeyBlock { name, algorithm, secret })
parse_key_block(s) ==
    With(conf_ws_tag("key", s), LAMBDA kw :
    With(conf_ws(conf_quoted_string, kw.rest), LAMBDA name :
    With(conf_block(parse_key_field, name.rest), LAMBDA fields :
        IF kw.ok /\ name.ok /\ fields.ok
        THEN Ok(fields.rest,
                [t |-> "Key", name |-> name.val,
                 key |-> [name |-> name.val,
                          algorithm |-> last_of(fields.val, "Algorithm", "hmac-sha256"),
                          secret |-> last_of(fields.val, "Secret", "")]])
        ELSE Err)))

parse_server_key_field(s) == conf_field("key", "Key", conf_quoted_string, s)

parse_server_port_field(s) == conf_field("port", "Port", port_number, s)

\* separated_list0(semicolon, ws(ip_addr)) after a first address: an address
\* is added for every separator an address follows; a separator no address
\* follows is left in the input
RECURSIVE separated_more(_)
separated_more(s) ==
    With(conf_semicolon(s), LAMBDA sep :
    With(conf_ws(conf_ip_addr, sep.rest), LAMBDA ip :
        IF sep.ok /\ ip.ok
        THEN With(separated_more(ip.rest), LAMBDA m : <<<<ip.val>> \o m[1], m[2]>>)
        ELSE <<<<>>, s>>))

\* separated_list0(semicolon, ws(ip_addr)): <<addresses, rest>>
separated_list0(s) ==
    With(conf_ws(conf_ip_addr, s), LAMBDA ip :
        IF ip.ok
        THEN With(separated_more(ip.rest), LAMBDA m : <<<<ip.val>> \o m[1], m[2]>>)
        ELSE <<<<>>, s>>)

parse_server_addresses_field(s) ==
    With(conf_ws_tag("addresses", s), LAMBDA kw :
    With(conf_ws_tag("{", kw.rest), LAMBDA open :
    With(separated_list0(open.rest), LAMBDA addrs :
    With(conf_ws_tag("};", addrs[2]), LAMBDA close :
        IF kw.ok /\ open.ok /\ close.ok
        THEN Ok(close.rest, Stmt("Addresses", addrs[1]))
        ELSE Err))))

parse_server_field(s) ==
    first_ok(<<parse_server_key_field(s), parse_server_port_field(s),
               parse_server_addresses_field(s)>>)

\* (addr.to_string(), ServerBlock { address, key, port, addresses })
parse_server_block(s) ==
    With(conf_ws_tag("server", s), LAMBDA kw :
    With(conf_ws(server_address, kw.rest), LAMBDA addr :
    With(conf_block(parse_server_field, addr.rest), LAMBDA fields :
        IF kw.ok /\ addr.ok /\ fields.ok
        THEN Ok(fields.rest,
                [t |-> "Server", addr |-> addr.val.text,
                 server |-> [address |-> addr.val,
                             key |-> last_some(fields.val, "Key"),
                             port |-> last_some(fields.val, "Port"),
                             addresses |-> last_some(fields.val, "Addresses")]])
        ELSE Err)))

parse_default_server_field(s) ==
    conf_field("default-server", "DefaultServer", conf_identifier, s)

parse_default_key_field(s) == conf_field("default-key", "DefaultKey", conf_quoted_string, s)

parse_default_port_field(s) == conf_field("default-port", "DefaultPort", port_number, s)

parse_option_field(s) ==
    first_ok(<<parse_default_server_field(s), parse_default_key_field(s),
               parse_default_port_field(s)>>)

parse_options_block(s) ==
    With(conf_ws_tag("options", s), LAMBDA kw :
    With(conf_block(parse_option_field, kw.rest), LAMBDA fields :
        IF kw.ok /\ fields.ok
        THEN Ok(fields.rest,
                [t |-> "Options",
                 options |-> [default_server |-> last_some(fields.val, "DefaultServer"),
                              default_key |-> last_some(fields.val, "DefaultKey"),
                              default_port |-> last_some(fields.val, "DefaultPort")]])
        ELSE Err))

parse_include_stmt(s) ==
    With(conf_ws_tag("include", s), LAMBDA kw :
    With(conf_ws(conf_quoted_string, kw.rest), LAMBDA path :
    With(conf_semicolon(path.rest), LAMBDA semi :
        IF kw.ok /\ path.ok /\ semi.ok
        THEN Ok(semi.rest, [t |-> "Include", path |-> path.val])
        ELSE Err)))

parse_statement(s) ==
    first_ok(<<parse_include_stmt(s), parse_key_block(s), parse_server_block(s),
               parse_options_block(s)>>)

\* many0(ws(parse_statement)), multispace0, and the statements applied in
\* order to RndcConfFile::new(): (rest, conf)
parse_rndc_conf_internal(text) ==
    With(many0(LAMBDA x : conf_ws(parse_statement, x), text), LAMBDA m :
        Ok(multispace0(m[2]), conf_statements(RndcConfFile_new, m[1])))

\* parse_rndc_conf_str on the text of a file: the remaining input is dropped
parse_rndc_conf_text(text) ==
    With(parse_rndc_conf_internal(text), LAMBDA r :
        IF r.ok THEN ConfOk(r.val) ELSE ConfErr("ParseError", text))

-----------------------------------------------------------------------------
(* rndc_conf_types.rs: the serializers of the configuration file           *)

KeyBlock_to_conf_block(key) ==
    "{\n    algorithm " \o key.algorithm \o ";\n    secret \"" \o key.secret \o "\";\n};"

\* format!("{}", port)
PortPart(keyword, port) ==
    IF IsSome(port) THEN <<"    " \o keyword \o " " \o ToDec(Unwrap(port)) \o ";">> ELSE <<>>

\* format!("... \"{}\";", name)
NamePart(keyword, name) ==
    IF IsSome(name) THEN <<"    " \o keyword \o " \"" \o Unwrap(name) \o "\";">> ELSE <<>>

AddressesPart(addresses) ==
    IF IsSome(addresses)
    THEN <<"    addresses {\n"
           \o Join([i \in DOMAIN Unwrap(addresses) |->
                       "        " \o Unwrap(addresses)[i] \o ";"], "\n")
           \o "\n    };">>
    ELSE <<>>

\* "{ };" for no parts, else the parts on lines of their own
BlockOf(parts) == IF parts = <<>> THEN "{ };" ELSE "{\n" \o Join(parts, "\n") \o "\n};"

ServerBlock_to_conf_block(server) ==
    BlockOf(NamePart("key", server.key) \o PortPart("port", server.port)
            \o AddressesPart(server.addresses))

OptionsBlock_is_empty(options) ==
    IsNone(options.default_server) /\ IsNone(options.default_key)
    /\ IsNone(options.default_port)

OptionsBlock_to_conf_block(options) ==
    BlockOf((IF IsSome(options.default_server)
             THEN <<"    default-server " \o Unwrap(options.default_server) \o ";">>
             ELSE <<>>)
            \o NamePart("default-key", options.default_key)
            \o PortPart("default-port", options.default_port))

\* RndcConfFile::to_conf_file; the keys and the servers are written in the
\* order their HashMap iterates in
to_conf_file(conf, key_order, server_order) ==
    Concat([i \in DOMAIN conf.includes |-> "include \"" \o conf.includes[i] \o "\";\n"])
    \o Concat([i \in DOMAIN key_order |->
                  "\nkey \"" \o key_order[i] \o "\" "
                  \o KeyBlock_to_conf_block(conf.keys[key_order[i]]) \o "\n"])
    \o Concat([i \in DOMAIN server_order |->
                  "\nserver " \o server_order[i] \o " "
                  \o ServerBlock_to_conf_block(conf.servers[server_order[i]]) \o "\n"])
    \o (IF OptionsBlock_is_empty(conf.options) THEN ""
        ELSE "\noptions " \o OptionsBlock_to_conf_block(conf.options) \o "\n")

-----------------------------------------------------------------------------
(* Specification of the configuration-file codec: a text is parsed by      *)
(* parse_rndc_conf_str, the document is written by to_conf_file and the    *)
(* output is parsed again; a zone text is parsed by parse_showzone.        *)

MaxKeyFields == 3
MaxConfStmts == 2

\* the sub-statements of a key block, each with the field and value it gives
KeyFieldCases ==
    { [text |-> "algorithm hmac-md5; ", kind |-> "Algorithm", val |-> "hmac-md5"],
      [text |-> "algorithm hmac-sha512 ; # sha\n", kind |-> "Algorithm",
       val |-> "hmac-sha512"],
      [text |-> "secret \"s1\"; ", kind |-> "Secret", val |-> "s1"],
      [text |-> "/* new */ secret \"s2\";", kind |-> "Secret", val |-> "s2"] }

KeyFieldLists == Seqs(KeyFieldCases, MaxKeyFields)

\* a key block named k with the given sub-statements
KeyText(fields) ==
    "key \"k\" { " \o Concat([i \in DOMAIN fields |-> fields[i].text]) \o "};\n"

\* texts that are a well-formed statement, a comment or whitespace
IncludeText == "include \"/etc/x\";\n"
OtherKeyText == "key \"j\" {\n  algorithm hmac-sha256;\n  secret \"a\\\"b\";\n};\n"
HostServerText == "server localhost { key \"k\"; port 953; };\n"
OptionsText == "options { default-server localhost; default-key \"k\"; default-port 8953; };\n"
CommentText == "# comment\n// comment\n/* comment */\n"
\* an address list as documented, every address followed by ';'
AddressListText == "server 10.0.0.1 { addresses { 10.0.0.2; 10.0.0.3; }; };\n"
\* an address list with no ';' after its last address
BareListText == "server 10.0.0.4 { addresses { 10.0.0.2; 10.0.0.3 }; };\n"
\* ports that do not fit 16 bits
ServerPortText == "server 10.0.0.5 { port 65536; };\n"
OptionsPortText == "options { default-port 66489; };\n"
\* addresses with a CIDR suffix
CidrServerText == "server 10.0.0.6/32 { port 953; };\n"
CidrListText == "server 10.0.0.7 { addresses { 10.0.0.2/32 }; };\n"
PlainListText == "server 10.0.0.7 { addresses { 10.0.0.2 }; };\n"

WellFormedTexts ==
    {IncludeText, OtherKeyText, HostServerText, OptionsText, CommentText,
     AddressListText, BareListText, CidrServerText, CidrListText, PlainListText}

\* ports out of range: well-formed tokens of a value no port has
PortOverflowTexts == {ServerPortText, OptionsPortText}

\* texts that are no statement, comment or whitespace
MalformedTexts ==
    {"garbage;\n", "key \"m\" { secret \"s\" }\n", "key m { };\n", "options { ;\n"}

MaxBlocks == 3

\* key and server blocks, some of the same name or address, each with the
\* map it is stored in, its name and the secret or port that tells it apart
NamedBlockCases ==
    { [text |-> "key \"d\" { secret \"first\"; };\n", map |-> "keys", name |-> "d",
       val |-> "first"],
      [text |-> "key \"d\" { algorithm hmac-md5; secret \"second\"; };\n",
       map |-> "keys", name |-> "d", val |-> "second"],
      [text |-> "key \"e\" { secret \"other\"; };\n", map |-> "keys", name |-> "e",
       val |-> "other"],
      [text |-> "server 10.0.0.8 { key \"first\"; };\n", map |-> "servers",
       name |-> "10.0.0.8", val |-> "first"],
      [text |-> "server 10.0.0.8 { key \"second\"; port 953; };\n", map |-> "servers",
       name |-> "10.0.0.8", val |-> "second"] }

NamedBlockLists == Seqs(NamedBlockCases, MaxBlocks)

\* options blocks, each with the fields it sets
OptionsBlockCases ==
    { [text |-> "options { };\n",
       sets |-> OptionsBlock_default],
      [text |-> "options { default-server h1; };\n",
       sets |-> [OptionsBlock_default EXCEPT !.default_server = Some("h1")]],
      [text |-> "options { default-key \"k1\"; default-port 1953; };\n",
       sets |-> [OptionsBlock_default EXCEPT !.default_key = Some("k1"),
                                            !.default_port = Some(1953)]],
      [text |-> "options { default-server h2; default-port 2953; };\n",
       sets |-> [OptionsBlock_default EXCEPT !.default_server = Some("h2"),
                                            !.default_port = Some(2953)]] }

OptionsBlockLists == Seqs(OptionsBlockCases, MaxBlocks)

\* the text of a list of blocks
BlocksText(blocks) == Concat([i \in DOMAIN blocks |-> blocks[i].text])

ConfTexts ==
    {KeyText(l) : l \in KeyFieldLists}
    \cup {BlocksText(l) : l \in NamedBlockLists \cup OptionsBlockLists}
    \cup {Concat(l) : l \in Lists(WellFormedTexts \cup PortOverflowTexts
                                  \cup MalformedTexts, MaxConfStmts)}

\* zone statements with a port or a CIDR suffix, and the same without
ZoneListTexts ==
    {"primaries { 10.0.0.1 port 5353; }; ", "primaries { 10.0.0.1 port 65536; }; ",
     "primaries { 10.0.0.1 port 66489; 10.0.0.2; }; ",
     "primaries { 10.0.0.1/32; }; ", "primaries { 10.0.0.1; }; ",
     "also-notify { 10.0.0.1/32; ::1/128; }; ", "also-notify { 10.0.0.1; ::1; }; ",
     "allow-transfer { 10.0.0.1/32; }; ", "allow-transfer { 10.0.0.1; }; ",
     "allow-update { 10.0.0.1/32; }; ", "allow-update { 10.0.0.1; }; "}

InitConf ==
    /\ pc = "start"
    /\ named = None
    /\ zoneFile = FALSE
    /\ request = NoRequest
    /\ response = Succeeded
    /\ sent = None
    /\ config = None
    /\ block = ""
    /\ reparsed = None
    /\ input = ""
    /\ fs = NoFs
    /\ visited = {}
    /\ stack = <<>>
    /\ result = None

\* parse_rndc_conf_str(text)
ParseConf ==
    /\ pc = "start"
    /\ \E text \in ConfTexts :
       \E r \in {parse_rndc_conf_text(text)} :
            /\ input' = text
            /\ result' = Some(r)
            /\ pc' = IF r.ok THEN "document" ELSE "failed"
    /\ UNCHANGED <<named, zoneFile, request, response, sent, config, block,
                   reparsed, fs, visited, stack>>

\* document.to_conf_file()
WriteConf ==
    /\ pc = "document"
    /\ \E key_order \in KeyOrders(Unwrap(result).conf.keys) :
       \E server_order \in KeyOrders(Unwrap(result).conf.servers) :
            block' = to_conf_file(Unwrap(result).conf, key_order, server_order)
    /\ pc' = "written"
    /\ UNCHANGED <<named, zoneFile, request, response, sent, config, reparsed,
                   input, fs, visited, stack, result>>

\* parse_rndc_conf_str(document.to_conf_file())
ReparseConf ==
    /\ pc = "written"
    /\ reparsed' = Some(parse_rndc_conf_text(block))
    /\ pc' = "reparsed"
    /\ UNCHANGED <<named, zoneFile, request, response, sent, config, block,
                   input, fs, visited, stack, result>>

\* parse_showzone(text) on a zone with one list statement
ParseZoneList ==
    /\ pc = "start"
    /\ \E stmt \in ZoneListTexts :
       \E r \in {parse_showzone(ZoneText(stmt))} :
            /\ input' = stmt
            /\ config' = IF r.ok THEN Some(r.val) ELSE None
            /\ pc' = IF r.ok THEN "zone" ELSE "failed"
    /\ UNCHANGED <<named, zoneFile, request, response, sent, block, reparsed,
                   fs, visited, stack, result>>

NextConf == ParseConf \/ WriteConf \/ ReparseConf \/ ParseZoneList

SpecConf == InitConf /\ [][NextConf]_vars

-----------------------------------------------------------------------------
(* Claims about parse_rndc_conf_str and the parsers of addresses and ports *)

\* the result of parse_rndc_conf_str on the input, once it has returned
ConfParsed == result # None
Doc == Unwrap(result).conf

\* C12: parse_rndc_conf_str returns a parse error whenever its input holds
\* text that is no whitespace, comment or well-formed statement; it never
\* returns Ok with the document of the statements before that text.
C12_MalformedIsError ==
    (ConfParsed /\ \E m \in MalformedTexts : Contains(input, m)) => ~Unwrap(result).ok

\* the value the sub-statements of a key block give a field: that of the
\* last sub-statement of the kind, or a default
Given(fields, kind, default) ==
    LET at == {i \in DOMAIN fields : fields[i].kind = kind}
    IN IF at = {} THEN default
       ELSE fields[CHOOSE i \in at : \A j \in at : j <= i].val

\* C13: a key block with algorithm and secret sub-statements in any order
\* and number is accepted; its algorithm is that of the last algorithm
\* sub-statement or hmac-sha256, its secret that of the last secret
\* sub-statement or the empty string.
C13_KeyBlockLastWins ==
    \A fields \in KeyFieldLists :
        (ConfParsed /\ input = KeyText(fields)) =>
            /\ Unwrap(result).ok
            /\ DOMAIN Doc.keys = {"k"}
            /\ Doc.keys["k"] =
                   [name |-> "k",
                    algorithm |-> Given(fields, "Algorithm", "hmac-sha256"),
                    secret |-> Given(fields, "Secret", "")]

C13_Witness ==
    /\ ConfParsed /\ Unwrap(result).ok
    /\ \E fields \in KeyFieldLists :
          /\ input = KeyText(fields)
          /\ Len(fields) = 3
          /\ fields[1].kind = "Secret" /\ fields[2].kind = "Algorithm"
          /\ fields[3].kind = "Secret" /\ fields[3].val # fields[1].val
          /\ Doc.keys["k"].secret = fields[3].val
          /\ Doc.keys["k"].algorithm = fields[2].val

\* C14: a server block whose address list is written with every address
\* followed by ';' is accepted, its addresses are the listed ones in order,
\* and the server and the statements after it are in the document.
C14_AddressListAccepted ==
    (ConfParsed /\ StartsWith(input, AddressListText)) =>
        /\ Unwrap(result).ok
        /\ "10.0.0.1" \in DOMAIN Doc.servers
        /\ Doc.servers["10.0.0.1"].addresses = Some(<<"10.0.0.2", "10.0.0.3">>)
        /\ EndsWith(input, IncludeText) => Doc.includes = <<"/etc/x">>

\* zone statements whose port does not fit 16 bits
ZonePortOverflows ==
    {t \in ZoneListTexts : Contains(t, "port 65536") \/ Contains(t, "port 66489")}

\* C15: a port greater than 65535 makes the parse of its statement fail: the
\* server block, the options block or the primaries statement is not
\* accepted with a wrapped or default port, nor with the port left out.
C15_PortOverflowFails ==
    /\ (ConfParsed /\ StartsWith(input, ServerPortText)) =>
            "10.0.0.5" \notin DOMAIN Doc.servers
    /\ (ConfParsed /\ StartsWith(input, OptionsPortText)) =>
            IsNone(Doc.options.default_port)
    /\ input \in ZonePortOverflows => pc # "zone"

\* zone statements with CIDR suffixes, each with the field it sets and the
\* addresses it lists
ZoneCidrCases ==
    { [text |-> "primaries { 10.0.0.1/32; }; ", field |-> "primaries",
       val |-> <<"10.0.0.1">>],
      [text |-> "also-notify { 10.0.0.1/32; ::1/128; }; ", field |-> "also_notify",
       val |-> <<"10.0.0.1", "::1">>],
      [text |-> "allow-transfer { 10.0.0.1/32; }; ", field |-> "allow_transfer",
       val |-> <<"10.0.0.1">>],
      [text |-> "allow-update { 10.0.0.1/32; }; ", field |-> "allow_update",
       val |-> <<"10.0.0.1">>] }

\* the zone-block half of C16: a list entry with a CIDR suffix is accepted
\* and gives the address without the suffix
ZoneCidrTolerated ==
    \A c \in ZoneCidrCases :
        input = c.text =>
            /\ pc = "zone"
            /\ Unwrap(config)[c.field] =
                   IF c.field = "primaries"
                   THEN Some([i \in DOMAIN c.val |-> [address |-> c.val[i], port |-> None]])
                   ELSE Some(c.val)

\* the configuration-file half of C16: a server address and an entry of an
\* addresses list with a CIDR suffix are accepted and give the address
\* without the suffix
ConfCidrTolerated ==
    /\ (ConfParsed /\ StartsWith(input, CidrServerText)) =>
            /\ "10.0.0.6" \in DOMAIN Doc.servers
            /\ Doc.servers["10.0.0.6"].address = [kind |-> "IpAddr", text |-> "10.0.0.6"]
    /\ (ConfParsed /\ StartsWith(input, CidrListText)) =>
            /\ "10.0.0.7" \in DOMAIN Doc.servers
            /\ Doc.servers["10.0.0.7"].addresses = Some(<<"10.0.0.2">>)

\* C16: wherever an IP literal is accepted, in the address lists of a zone
\* block and in the configuration file, the literal followed by /<digits>
\* is accepted and gives the same address as the literal alone.
C16_CidrTolerated == ZoneCidrTolerated /\ ConfCidrTolerated

\* C18: for every document parse_rndc_conf_str returns, parsing the output
\* of to_conf_file succeeds and gives a document with the same keys,
\* servers, options and includes.
C18_ConfRoundTrip ==
    (pc = "reparsed" /\ Unwrap(result).ok) =>
        /\ Unwrap(reparsed).ok
        /\ Unwrap(reparsed).conf = Doc

-----------------------------------------------------------------------------
(* Claims about the output of to_rndc_block                                *)

\* the block to_rndc_block has returned for a config whose directives all
\* come from typed fields
TypedBlock ==
    /\ pc \in {"block", "reparsed"}
    /\ Unwrap(config).raw_options = EmptyMap
    /\ IsNone(Unwrap(config).allow_update_raw)

LegacyKeywords == {"master", "slave", "masters", "master-only"}

\* text s holds w as a whole word: not as part of a longer name such as
\* multi-master or masterfile-format
HasWord(s, w) ==
    \E i \in Occurrences(w, s) :
        /\ i = 0 \/ SubSeq(s, i, i) \notin IdentChars
        /\ i + Len(w) = Len(s)
           \/ SubSeq(s, i + Len(w) + 1, i + Len(w) + 1) \notin IdentChars

\* C17: legacy keywords are accepted on input and never emitted: the output
\* of to_rndc_block for typed fields holds none of master, slave, masters and
\* master-only; a legacy zone type, primaries list or notify mode is written
\* as primary, secondary, primaries, primary-only.
C17_NoLegacyEmitted ==
    /\ TypedBlock => \A w \in LegacyKeywords : ~HasWord(block, w)
    /\ input \in LegacyTexts => pc # "failed"

\* the zone type and the primaries list read in legacy terms are written in
\* current terms
LegacyTypeNormalized ==
    (pc \in {"block", "reparsed"} /\ input \in LegacyTexts) =>
        /\ Contains(input, "type master") => Contains(block, "type primary;")
        /\ Contains(input, "type slave") => Contains(block, "type secondary;")
        /\ Contains(input, "masters {") => Contains(block, "primaries {")
        /\ \A w \in {"master", "slave", "masters"} : ~HasWord(block, w)

\* C20: to_rndc_block never writes a list directive with an empty body: a
\* list field that holds an empty list (allow_update with no raw text) gives
\* no directive of its name in the output.
C20_EmptyListsNotEmitted ==
    pc \in {"block", "reparsed"} =>
        /\ \A f \in ListFields :
              (/\ Unwrap(config)[f] = Some(<<>>)
               /\ f = "allow_update" => IsNone(Unwrap(config).allow_update_raw)
               /\ ListDirective[f] \notin DOMAIN Unwrap(config).raw_options)
              => ~HasWord(block, ListDirective[f])
        /\ IsNone(Unwrap(config).allow_update_raw) /\ Unwrap(config).raw_options = EmptyMap
              => ~Contains(block, "{ ; }") /\ ~Contains(block, "{ }")

C20_Witness ==
    /\ pc = "block"
    /\ \A f \in ListFields : Unwrap(config)[f] = Some(<<>>)
    /\ block = "{ type primary; };"

-----------------------------------------------------------------------------
(* Specification of several calls of parse_rndc_conf_file on the same      *)
(* files: one caller calls it MaxCalls times, another calls it meanwhile.   *)
(* The files do not change; pc, visited and stack are                      *)
(* held per caller, result is the list of what a caller's calls returned.  *)

MaxCalls == 2
MaxCallStatements == 3

Callers == {"t1", "t2"}

\* the calls a caller makes: t1 calls one time after the other, t2 calls
\* once, at any moment of the calls of t1
CallsOf == [t \in Callers |-> IF t = "t1" THEN MaxCalls ELSE 1]

\* what a file of these configurations may hold
CallPool(file) ==
    {IncludeStmt("./b"), IncludeStmt("./c"), IncludeStmt("/etc/a"), KeyStmt("k", file)}

\* the file systems: three files that exist, with at most MaxCallStatements
\* statements between them
CallFileSystems ==
    UNION {UNION {{("/etc/a" :> [status |-> "file", items |-> ia])
                   @@ ("/etc/b" :> [status |-> "file", items |-> ib])
                   @@ ("/etc/c" :> [status |-> "file", items |-> ic]) :
                     ic \in Seqs(CallPool("/etc/c"),
                                 MaxCallStatements - Len(ia) - Len(ib))} :
                  ib \in Seqs(CallPool("/etc/b"), MaxCallStatements - Len(ia))} :
           ia \in Seqs(CallPool("/etc/a"), MaxCallStatements)}

InitCalls ==
    /\ pc = [t \in Callers |-> "idle"]
    /\ named = None
    /\ zoneFile = FALSE
    /\ request = NoRequest
    /\ response = Succeeded
    /\ sent = None
    /\ config = None
    /\ block = ""
    /\ reparsed = None
    /\ input \in RootPaths
    /\ fs \in CallFileSystems
    /\ visited = [t \in Callers |-> {}]
    /\ stack = [t \in Callers |-> <<>>]
    /\ result = [t \in Callers |-> <<>>]

\* parse_rndc_conf_file_recursive(path, visited) from its entry to the start
\* of its loop over the includes, below the frames `callers`: the visited
\* set and the frames it leaves, and the error it returns if it returns one
enter_file(path, callers, seen) ==
    With(canonicalize[path], LAMBDA canonical_path :
        IF fs[canonical_path].status = "missing"
        THEN [visited |-> seen, stack |-> <<>>,
              error |-> Some(ConfErr("FileNotFound", path))]
        ELSE IF canonical_path \in seen
        THEN [visited |-> seen, stack |-> <<>>,
              error |-> Some(ConfErr("CircularInclude", canonical_path))]
        ELSE IF fs[canonical_path].status = "unreadable"
        THEN [visited |-> seen \cup {canonical_path}, stack |-> <<>>,
              error |-> Some(ConfErr("IoError", path))]
        ELSE With(parse_rndc_conf_str(fs[canonical_path].items), LAMBDA conf :
                 [visited |-> seen \cup {canonical_path},
                  stack |-> Append(callers,
                                   [path |-> path,
                                    conf |-> [conf EXCEPT !.includes = <<>>],
                                    includes |-> conf.includes]),
                  error |-> None]))

\* caller t goes on after enter_file: into the loop, or out with the error
Entered(t, e) ==
    /\ visited' = [visited EXCEPT ![t] = e.visited]
    /\ stack' = [stack EXCEPT ![t] = e.stack]
    /\ pc' = [pc EXCEPT ![t] = IF IsSome(e.error) THEN "idle" ELSE "running"]
    /\ result' = IF IsSome(e.error)
                 THEN [result EXCEPT ![t] = Append(@, Unwrap(e.error))]
                 ELSE result

\* a call that starts with the files every call so far has visited
BeginCall_shared_visited(t) ==
    /\ pc[t] = "idle"
    /\ Len(result[t]) < CallsOf[t]
    /\ \E e \in {enter_file(input, <<>>, UNION {visited[u] : u \in Callers})} :
          Entered(t, e)
    /\ UNCHANGED <<named, zoneFile, request, response, sent, config, block,
                   reparsed, input, fs>>

\* parse_rndc_conf_file(path): let mut visited = HashSet::new()
BeginCall(t) ==
    /\ pc[t] = "idle"
    /\ Len(result[t]) < CallsOf[t]
    /\ \E e \in {enter_file(input, <<>>, {})} : Entered(t, e)
    /\ UNCHANGED <<named, zoneFile, request, response, sent, config, block,
                   reparsed, input, fs>>

FrameOf(t) == stack[t][Len(stack[t])]

\* the loop of caller t meets an include: resolve its path and call
DescendCall(t) ==
    /\ pc[t] = "running"
    /\ FrameOf(t).includes # <<>>
    /\ \E e \in {enter_file(resolve[FrameOf(t).path][Head(FrameOf(t).includes)],
                            stack[t], visited[t])} : Entered(t, e)
    /\ UNCHANGED <<named, zoneFile, request, response, sent, config, block,
                   reparsed, input, fs>>

\* an included file of caller t is done: its caller merges Ok(conf)
ReturnCall(t) ==
    /\ pc[t] = "running"
    /\ FrameOf(t).includes = <<>>
    /\ Len(stack[t]) > 1
    /\ \E caller \in {stack[t][Len(stack[t]) - 1]} :
          stack' = [stack EXCEPT ![t] =
                       Append(SubSeq(@, 1, Len(@) - 2),
                              [caller EXCEPT
                                 !.conf = merge_included(caller.conf, FrameOf(t).conf,
                                                         FrameOf(t).path),
                                 !.includes = Tail(caller.includes)])]
    /\ UNCHANGED <<pc, named, zoneFile, request, response, sent, config, block,
                   reparsed, input, fs, visited, result>>

\* the root file of caller t is done: parse_rndc_conf_file returns Ok(conf)
\* and its visited set is dropped
FinishCall(t) ==
    /\ pc[t] = "running"
    /\ FrameOf(t).includes = <<>>
    /\ Len(stack[t]) = 1
    /\ result' = [result EXCEPT ![t] = Append(@, ConfOk(FrameOf(t).conf))]
    /\ stack' = [stack EXCEPT ![t] = <<>>]
    /\ pc' = [pc EXCEPT ![t] = "idle"]
    /\ UNCHANGED <<named, zoneFile, request, response, sent, config, block,
                   reparsed, input, fs, visited>>

NextCalls ==
    \E t \in Callers : BeginCall(t) \/ DescendCall(t) \/ ReturnCall(t) \/ FinishCall(t)

SpecCalls == InitCalls /\ [][NextCalls]_vars

-----------------------------------------------------------------------------
(* Claims about calls of parse_rndc_conf_file on the same files            *)

\* what the calls made so far have returned
AllResults == UNION {{result[t][i] : i \in DOMAIN result[t]} : t \in Callers}

\* the files one call reaches from the root file
Reached == Closure({RootFile})

\* the number of times one call arrives at file f: as the root file, and
\* once for every include statement of a reached file that names it
ArrivalsAt(f) ==
    (IF f = RootFile THEN 1 ELSE 0)
    + Cardinality({<<g, i>> \in Reached \X (1..MaxCallStatements + 1) :
                      i \in IncludesRead(g)
                      /\ FileOf[many0_conf(fs[g].items)[i].path] = f})

\* one call reaches no file twice: no cycle, no file with two includers, no
\* include written twice
NoRevisit == \A f \in Reached : ArrivalsAt(f) <= 1

\* C19 as stated: resolving a configuration without a cycle of includes
\* returns Ok with equal documents in every call, never CircularInclude.
C19_AcyclicAlwaysOk ==
    ~CycleReachable =>
        /\ \A r \in AllResults : r.ok
        /\ \A r1, r2 \in AllResults : r1.conf = r2.conf

\* C19: the visited set belongs to one call.  Every call on the same files
\* returns the same result, whatever calls ran before it or run at the same
\* time; when one call reaches no file twice, every call returns Ok with
\* equal documents and never CircularInclude.
C19_CallsIndependent ==
    /\ \A r1, r2 \in AllResults : r1 = r2
    /\ NoRevisit => \A r \in AllResults : r.ok

C19_Witness ==
    /\ fs["/etc/a"].items = <<IncludeStmt("./b")>>
    /\ fs["/etc/b"].items = <<IncludeStmt("./c"), KeyStmt("k", "/etc/b")>>
    /\ NoRevisit
    /\ Len(result["t1"]) = 2 /\ Len(result["t2"]) = 1
    /\ result["t1"][1].ok /\ result["t1"][1].conf.keys["k"].secret = "/etc/b"
    /\ result["t1"][2] = result["t1"][1] /\ result["t2"][1] = result["t1"][1]
    /\ visited["t1"] = {"/etc/a", "/etc/b", "/etc/c"} /\ visited["t2"] = visited["t1"]

-----------------------------------------------------------------------------
(* Claims about the visited set within one call of parse_rndc_conf_file    *)

\* the files the call has entered: canonicalize succeeded and the file was
\* not in visited
Entered_files == {f \in ConfFiles : fs[f].status \in {"file", "unreadable"}}

\* a second arrival at a file makes the call return an error, and
\* CircularInclude when no file is missing or unreadable
RevisitIsCircular ==
    (Returned /\ \E f \in ConfFiles : Revisited(f)) =>
        /\ ~Res.ok
        /\ NoFileFails => Res.err = "CircularInclude"

\* C21: within one call the visited set only grows: it holds every file
\* entered so far, also after the resolution of that file has returned; a
\* second arrival at a file, through a cycle, through two includers or
\* through an include written twice, returns CircularInclude.
C21_VisitedOnlyGrows ==
    /\ [][visited \subseteq visited']_vars
    /\ [](visited = Entered_files)
    /\ []RevisitIsCircular

\* a diamond: a includes b and c, b includes c
C21_Witness ==
    /\ Returned /\ NoFileFails
    /\ fs["/etc/a"].items = <<IncludeStmt("./b"), IncludeStmt("./c")>>
    /\ fs["/etc/b"].items = <<IncludeStmt("./c")>>
    /\ fs["/etc/c"].status = "file"
    /\ visited = {"/etc/a", "/etc/b", "/etc/c"}
    /\ ~Res.ok /\ Res.err = "CircularInclude" /\ Res.path = "/etc/c"

-----------------------------------------------------------------------------
(* Claims about repeated blocks within one file                            *)

\* the places of a list of blocks that define the name in the map
Defining(blocks, map, name) ==
    {i \in DOMAIN blocks : blocks[i].map = map /\ blocks[i].name = name}

\* the block of the list that defines the name last
LastDefining(blocks, map, name) ==
    blocks[CHOOSE i \in Defining(blocks, map, name) :
              \A j \in Defining(blocks, map, name) : j <= i]

\* C22: when one file holds two key blocks of the same name or two server
\* blocks of the same address, the document holds one entry for the name and
\* it is the one defined later in the text.
C22_LaterBlockWins ==
    \A blocks \in NamedBlockLists :
        (ConfParsed /\ input = BlocksText(blocks)) =>
            /\ Unwrap(result).ok
            /\ DOMAIN Doc.keys = {b.name : b \in {blocks[i] : i \in Defining(blocks, "keys", "d") \cup Defining(blocks, "keys", "e")}}
            /\ \A n \in DOMAIN Doc.keys :
                  Doc.keys[n].secret = LastDefining(blocks, "keys", n).val
            /\ DOMAIN Doc.servers = {blocks[i].name : i \in Defining(blocks, "servers", "10.0.0.8")}
            /\ \A n \in DOMAIN Doc.servers :
                  Doc.servers[n].key = Some(LastDefining(blocks, "servers", n).val)

C22_Witness ==
    /\ ConfParsed /\ Unwrap(result).ok
    /\ \E blocks \in NamedBlockLists :
          /\ input = BlocksText(blocks) /\ Len(blocks) = 3
          /\ blocks[1].name = "d" /\ blocks[1].val = "second"
          /\ blocks[2].name = "10.0.0.8"
          /\ blocks[3].name = "d" /\ blocks[3].val = "first"
    /\ DOMAIN Doc.keys = {"d"}
    /\ Doc.keys["d"] = [name |-> "d", algorithm |-> "hmac-sha256", secret |-> "first"]

\* the value a list of options blocks gives a field: that of the last block
\* that sets it, or none
LastSet(blocks, f) ==
    LET at == {i \in DOMAIN blocks : IsSome(blocks[i].sets[f])}
    IN IF at = {} THEN None
       ELSE blocks[CHOOSE i \in at : \A j \in at : j <= i].sets[f]

\* C23: with several options blocks in one file, each of default_server,
\* default_key and default_port ends with the value of the last block that
\* sets it; a block that does not set a field leaves it as it was.
C23_OptionsLastSetWins ==
    \A blocks \in OptionsBlockLists :
        (ConfParsed /\ input = BlocksText(blocks)) =>
            /\ Unwrap(result).ok
            /\ \A f \in OptionFields : Doc.options[f] = LastSet(blocks, f)

C23_Witness ==
    /\ ConfParsed /\ Unwrap(result).ok
    /\ input = "options { default-server h2; default-port 2953; };\n"
               \o "options { default-key \"k1\"; default-port 1953; };\n"
               \o "options { };\n"
    /\ Doc.options = [default_server |-> Some("h2"), default_key |-> Some("k1"),
                      default_port |-> Some(1953)]

-----------------------------------------------------------------------------
(* Claims about the entries of an allow-update body without a key          *)

\* the lists of entries the parsed text was written from
EntriesOf(text) == {z.entries : z \in {y \in EntryZones : y.text = text}}

\* the addresses of a list of entries, in order
AddressesOf(l) ==
    LET ips == SelectSeq(l, LAMBDA e : e.ip)
    IN [i \in DOMAIN ips |-> ips[i].text]

\* C24: an entry of an allow-update body that is neither an address nor a
\* key reference is skipped up to its terminating ';': the zone block still
\* parses, and the addresses before and after it are collected in order.
C24_UnknownEntrySkipped ==
    (pc \in {"config", "failed"} /\ Parsed) =>
        \A l \in EntriesOf(input) :
            /\ pc = "config"
            /\ Cfg.allow_update = Some(AddressesOf(l))

\* C28: for an allow-update body without a key reference, the block written
\* from the parsed config holds an allow-update directive whenever the body
\* had an entry, and the directive holds every entry of the body.
C28_NoEntryLost ==
    (pc = "block" /\ Parsed) =>
        \A l \in EntriesOf(input) :
            l # <<>> =>
                /\ Count("allow-update ", block) = 1
                /\ \A i \in DOMAIN l : Contains(block, " " \o l[i].text \o ";")

-----------------------------------------------------------------------------
(* POST /api/v1/zones: create_zone (zones.rs).  In this specification fs is *)
(* the zone directory (zone name -> content of <name>.zone, or None),       *)
(* named the set of zones the server holds, request the request served      *)
(* last, response the error or success it was answered with, sent the       *)
(* addzone command given to rndc and result the number of requests served.  *)

MaxCreates == 2

ZONE_TYPE_PRIMARY == "primary"
ZONE_TYPE_SECONDARY == "secondary"

\* one line of to_zone_file for a record
record_line(r) ==
    r.name \o " " \o (IF IsSome(r.ttl) THEN ToDec(Unwrap(r.ttl)) \o " " ELSE "")
    \o "IN " \o r.record_type \o " "
    \o (IF IsSome(r.priority) THEN ToDec(Unwrap(r.priority)) \o " " ELSE "")
    \o r.value \o "\n"

\* ZoneConfig::to_zone_file; name_server_ips is given in iteration order
to_zone_file(c) ==
    "$TTL " \o ToDec(c.ttl) \o "\n\n"
    \o "@ IN SOA " \o c.soa.primary_ns \o " " \o c.soa.admin_email \o " (\n"
    \o "    " \o ToDec(c.soa.serial) \o "  ; Serial\n"
    \o "    " \o ToDec(c.soa.refresh) \o "  ; Refresh\n"
    \o "    " \o ToDec(c.soa.retry) \o "  ; Retry\n"
    \o "    " \o ToDec(c.soa.expire) \o "  ; Expire\n"
    \o "    " \o ToDec(c.soa.negative_ttl) \o " ); Negative TTL\n\n"
    \o Concat([i \in DOMAIN c.name_servers |-> "@ IN NS " \o c.name_servers[i] \o "\n"])
    \o (IF c.name_servers # <<>> THEN "\n" ELSE "")
    \o Concat([i \in DOMAIN c.name_server_ips |->
                  c.name_server_ips[i][1] \o " IN A " \o c.name_server_ips[i][2] \o "\n"])
    \o (IF c.name_server_ips # <<>> THEN "\n" ELSE "")
    \o Concat([i \in DOMAIN c.records |-> record_line(c.records[i])])

\* the list `a; b; ` of a directive of the addzone configuration
addzone_list(keyword, list) ==
    IF IsSome(list) /\ Unwrap(list) # <<>>
    THEN <<keyword \o " { "
           \o Concat([i \in DOMAIN Unwrap(list) |-> Unwrap(list)[i] \o "; "]) \o " }">>
    ELSE <<>>

\* the configuration create_zone gives to rndc addzone
addzone_config(req, zone_dir) ==
    LET config_parts ==
            <<"type " \o req.zone_type>>
            \o (IF req.zone_type = ZONE_TYPE_PRIMARY
                THEN <<"file \"" \o zone_dir \o "/" \o req.zone_name \o ".zone\"">>
                ELSE <<>>)
            \o (IF req.zone_type = ZONE_TYPE_SECONDARY
                THEN addzone_list("primaries", req.zone_config.primaries)
                ELSE <<>>)
            \o (IF IsSome(req.update_key_name)
                THEN <<"allow-update { key \"" \o Unwrap(req.update_key_name) \o "\"; }">>
                ELSE <<>>)
            \o addzone_list("also-notify", req.zone_config.also_notify)
            \o addzone_list("allow-transfer", req.zone_config.allow_transfer)
    IN "{ " \o Join(config_parts, "; ") \o "; };"

ZoneDir == "/var/cache/bind"
CreateNames == {"a.test", "b.test"}

BaseZoneConfig ==
    [ttl |-> 3600,
     soa |-> [primary_ns |-> "ns1.a.test.", admin_email |-> "admin.a.test.",
              serial |-> 1, refresh |-> 3600, retry |-> 600, expire |-> 604800,
              negative_ttl |-> 86400],
     name_servers |-> <<"ns1.a.test.">>,
     name_server_ips |-> <<<<"ns1.a.test.", "10.0.0.1">>>>,
     records |-> <<[name |-> "www", record_type |-> "A", value |-> "10.0.0.2",
                    ttl |-> None, priority |-> None]>>,
     also_notify |-> None, allow_transfer |-> None, primaries |-> None]

CreateConfigs ==
    {BaseZoneConfig,
     [BaseZoneConfig EXCEPT !.soa.serial = 2, !.also_notify = Some(<<"10.0.0.3">>),
                            !.records = <<[name |-> "@", record_type |-> "MX",
                                           value |-> "mail.a.test.", ttl |-> Some(300),
                                           priority |-> Some(10)]>>],
     [BaseZoneConfig EXCEPT !.primaries = Some(<<"10.0.0.1">>),
                            !.allow_transfer = Some(<<"10.0.0.3">>)]}

CreateRequests ==
    [zone_name : {""} \cup CreateNames,
     zone_type : {ZONE_TYPE_PRIMARY, ZONE_TYPE_SECONDARY, "forward"},
     zone_config : CreateConfigs,
     update_key_name : {None, Some("k")}]

InitCreate ==
    /\ pc = "serving"
    /\ named = {}
    /\ fs = [n \in CreateNames |-> None]
    /\ request = NoRequest
    /\ response = "None"
    /\ sent = None
    /\ result = 0
    /\ zoneFile = FALSE
    /\ config = None
    /\ block = ""
    /\ reparsed = None
    /\ input = ""
    /\ visited = {}
    /\ stack = <<>>

\* a request create_zone rejects before it touches the directory
CreateInvalid(req) ==
    \/ req.zone_name = ""
    \/ req.zone_type \notin {ZONE_TYPE_PRIMARY, ZONE_TYPE_SECONDARY}
    \/ /\ req.zone_type = ZONE_TYPE_SECONDARY
       /\ req.zone_config.primaries \in {None, Some(<<>>)}

\* create_zone answers InvalidRequest
CreateRejected ==
    /\ pc = "serving" /\ result < MaxCreates
    /\ \E req \in CreateRequests :
          /\ CreateInvalid(req)
          /\ request' = req
    /\ response' = "InvalidRequest"
    /\ result' = result + 1
    /\ UNCHANGED <<pc, named, zoneFile, sent, config, block, reparsed, input, fs,
                   visited, stack>>

\* tokio::fs::write fails: the file is as it was, or was opened and truncated
CreateWriteFails ==
    /\ pc = "serving" /\ result < MaxCreates
    /\ \E req \in CreateRequests :
          /\ ~CreateInvalid(req) /\ req.zone_type = ZONE_TYPE_PRIMARY
          /\ request' = req
          /\ fs' \in {fs, [fs EXCEPT ![req.zone_name] = Some("")]}
    /\ response' = "ZoneFileError"
    /\ result' = result + 1
    /\ UNCHANGED <<pc, named, zoneFile, sent, config, block, reparsed, input,
                   visited, stack>>

\* the zone directory after the write of create_zone (359-383)
written(dir, req) ==
    IF req.zone_type = ZONE_TYPE_PRIMARY
    THEN [dir EXCEPT ![req.zone_name] = Some(to_zone_file(req.zone_config))]
    ELSE dir

\* the file is written and rndc addzone fails: the server holds the zone
\* already, or rndc fails for another reason
CreateAddzoneFails ==
    /\ pc = "serving" /\ result < MaxCreates
    /\ \E req \in CreateRequests :
          /\ ~CreateInvalid(req)
          /\ request' = req
          /\ fs' = written(fs, req)
          /\ sent' = Some("addzone " \o req.zone_name \o " " \o addzone_config(req, ZoneDir))
          /\ response' \in (IF req.zone_name \in named THEN {"ZoneAlreadyExists"} ELSE {})
                            \cup {"RndcError"}
    /\ result' = result + 1
    /\ UNCHANGED <<pc, named, zoneFile, config, block, reparsed, input, visited, stack>>

\* the file is written and rndc addzone succeeds
CreateSucceeds ==
    /\ pc = "serving" /\ result < MaxCreates
    /\ \E req \in CreateRequests :
          /\ ~CreateInvalid(req) /\ req.zone_name \notin named
          /\ request' = req
          /\ fs' = written(fs, req)
          /\ sent' = Some("addzone " \o req.zone_name \o " " \o addzone_config(req, ZoneDir))
          /\ named' = named \cup {req.zone_name}
    /\ response' = "Created"
    /\ result' = result + 1
    /\ UNCHANGED <<pc, zoneFile, config, block, reparsed, input, visited, stack>>

NextCreate == CreateRejected \/ CreateWriteFails \/ CreateAddzoneFails \/ CreateSucceeds

SpecCreate == InitCreate /\ [][NextCreate]_vars

\* the step is a create_zone for a primary zone that fails at addzone
AddzoneFailed ==
    /\ result' = result + 1
    /\ request'.zone_type = ZONE_TYPE_PRIMARY
    /\ response' \in {"ZoneAlreadyExists", "RndcError"}

\* C25: when create_zone for a primary zone returns an error because addzone
\* failed (the conflict of an existing zone included), the zone directory is
\* as it was before the request: no file was created for the name and a file
\* that existed keeps its content.
C25_FailedCreateLeavesDirectory ==
    [][AddzoneFailed => fs' = fs]_vars

-----------------------------------------------------------------------------
(* Claims about the directives of the block sent to modzone                *)

DirectiveNames ==
    {"type", "file", "also-notify", "allow-transfer", "allow-update", "zone-statistics"}

\* the number of directives of the name in a block
DirectiveCount(d, text) == Count(" " \o d \o " ", text)

\* C26: in the block modify_zone sends to modzone every directive name
\* occurs at most once, and after a PATCH that sets alsoNotify or
\* allowTransfer the block has exactly one directive of that name, listing
\* the new addresses, whatever the zone held for the directive before.
C26_OneDirectivePerName ==
    (pc = "done" /\ IsSome(sent)) =>
        /\ \A d \in DirectiveNames : DirectiveCount(d, Unwrap(sent)) <= 1
        /\ \A f \in {"also_notify", "allow_transfer"} :
              (request[f] \notin {None, Some(<<>>)}) =>
                  /\ DirectiveCount(ListDirective[f], Unwrap(sent)) = 1
                  /\ Contains(Unwrap(sent),
                              " " \o ListDirective[f] \o " { "
                              \o Join(Unwrap(request[f]), "; ") \o "; };")

-----------------------------------------------------------------------------
(* Claims about the zone type parse_showzone returns                       *)

\* the names a type statement may give a zone type
TypeNames(t) ==
    {ZoneType_as_str(t)}
    \cup (IF t = "Primary" THEN {"master"} ELSE {})
    \cup (IF t = "Secondary" THEN {"slave"} ELSE {})

\* the type tokens the parsed text may have been written with
TokensOf(text) == {token \in TypeTokens : TypeText(token) = text}

\* C27: parse_showzone returns zone_type T only for a block whose type
\* statement names T or a legacy synonym of T; a block with an unknown type
\* token or without a type statement is not returned as Primary, and the
\* block written from the result has exactly one type directive.
C27_TypeFromStatement ==
    (pc \in {"config", "block"} /\ Parsed) =>
        \A token \in TokensOf(input) :
            /\ token \in TypeNames(Cfg.zone_type)
            /\ pc = "block" => DirectiveCount("type", block) = 1

-----------------------------------------------------------------------------
(* parse_rndc_conf_file on include trees whose files are known from the    *)
(* start: the resolver of SpecInclude over file systems of up to            *)
(* MaxTreeStatements statements                                             *)

MaxTreeStatements == 4

TreePool(file) ==
    {IncludeStmt("./b"), IncludeStmt("./c"), KeyStmt("k", file), ServerStmt("s", file),
     OptionsStmt(file), PortOptionsStmt(file)}

\* /etc/c as a file of the given statements, or missing, or unreadable
TreeLeaves(n) ==
    {[status |-> "file", items |-> ic] : ic \in Seqs(TreePool("/etc/c"), n)}
    \cup {[status |-> "missing", items |-> <<>>], [status |-> "unreadable", items |-> <<>>]}

\* the file systems: /etc/a and /etc/b are files, with at most
\* MaxTreeStatements statements in the three files together
TreeFileSystem(ia, ib, c) ==
    ("/etc/a" :> [status |-> "file", items |-> ia])
    @@ ("/etc/b" :> [status |-> "file", items |-> ib])
    @@ ("/etc/c" :> c)

InitTree ==
    /\ pc = "start"
    /\ named = None
    /\ zoneFile = FALSE
    /\ request = NoRequest
    /\ response = Succeeded
    /\ sent = None
    /\ config = None
    /\ block = ""
    /\ reparsed = None
    /\ input = ""
    /\ \E ia \in Seqs(TreePool("/etc/a"), MaxTreeStatements) :
       \E ib \in Seqs(TreePool("/etc/b"), MaxTreeStatements - Len(ia)) :
       \E c \in TreeLeaves(MaxTreeStatements - Len(ia) - Len(ib)) :
          fs = TreeFileSystem(ia, ib, c)
    /\ visited = {}
    /\ stack = <<>>
    /\ result = None

SpecTree == InitTree /\ [][NextInclude]_vars

\* the files of the tree below f in depth-first pre-order: f, then each of
\* its includes in the order listed, each followed by its own includes
RECURSIVE PreOrder(_)
PreOrder(f) ==
    LET incs == OwnDoc(f).includes
        RECURSIVE Below(_)
        Below(i) == IF i > Len(incs) THEN <<>>
                    ELSE PreOrder(FileOf[incs[i]]) \o Below(i + 1)
    IN <<f>> \o Below(1)

\* the first file of the order that defines something, as a set of at most
\* one file
FirstDefining(order, Defines(_)) ==
    {order[i] : i \in {j \in DOMAIN order :
                          Defines(order[j]) /\ \A h \in 1..(j - 1) : ~Defines(order[h])}}

\* map Field of the merged document holds name k with the definition of the
\* first file of the order that defines k, and does not hold k when no file
\* defines it
FirstWins(order, Field(_), k) ==
    LET first == FirstDefining(order, LAMBDA f : k \in DOMAIN Field(OwnDoc(f)))
    IN /\ (first = {}) = (k \notin DOMAIN Field(Res.conf))
       /\ \A f \in first : Field(Res.conf)[k] = Field(OwnDoc(f))[k]

\* C29: the merged document of an include tree gives every key name, server
\* address and options field the value of the first file that defines it in
\* depth-first pre-order, so of two sibling includes that define the same
\* name the one listed earlier wins.
C29_FirstInPreOrderWins ==
    (Returned /\ Res.ok) =>
        /\ FirstWins(PreOrder(RootFile), KeysOf, "k")
        /\ FirstWins(PreOrder(RootFile), ServersOf, "s")
        /\ \A o \in OptionFields :
              LET first == FirstDefining(PreOrder(RootFile),
                                         LAMBDA f : IsSome(OwnDoc(f).options[o]))
              IN /\ (first = {}) = IsNone(Res.conf.options[o])
                 /\ \A f \in first : Res.conf.options[o] = OwnDoc(f).options[o]

C29_Witness ==
    /\ Returned /\ Res.ok
    /\ fs["/etc/a"].items = <<IncludeStmt("./b"), IncludeStmt("./c")>>
    /\ fs["/etc/b"].items = <<KeyStmt("k", "/etc/b")>>
    /\ fs["/etc/c"].items = <<KeyStmt("k", "/etc/c")>>
    /\ Res.conf.keys["k"].secret = "/etc/b"

-----------------------------------------------------------------------------
(* Claims about what modify_zone does before it sends modzone              *)

RequestFields == {"also_notify", "allow_transfer", "allow_update"}

\* the request names an address that is no IP address
HasInvalidAddress(req) ==
    \E f \in RequestFields :
        IsSome(req[f]) /\ \E i \in DOMAIN Unwrap(req[f]) : Unwrap(req[f])[i] = "bad"

\* the server's zone before the request (input holds its showzone text)
ZoneBefore == IF input = "" THEN None ELSE Some(input)

\* C30: modzone is sent only after every supplied field was validated and
\* applied to the parsed configuration: a request without a field, for a
\* zone the server does not hold, for a zone whose showzone output does not
\* parse, or with an address that is no IP address is answered with an
\* error, no modzone command is sent and the zone stays as it was.
C30_NoPartialUpdate ==
    pc = "done" =>
        /\ (\/ request = NoRequest
            \/ ZoneBefore = None
            \/ input \in GarbledZones
            \/ HasInvalidAddress(request)) =>
                ~response.ok /\ IsNone(sent) /\ named = ZoneBefore
        /\ IsSome(sent) =>
              /\ \A f \in RequestFields :
                    IsSome(request[f]) =>
                        Unwrap(config)[f] = none_if_empty(Unwrap(request[f]))
              /\ \E order \in KeyOrders(Unwrap(config).raw_options) :
                    Unwrap(sent) = to_rndc_block(Unwrap(config), order)

C30_Witness ==
    /\ pc = "done"
    /\ request = [also_notify |-> Some(<<"10.0.0.9">>),
                  allow_transfer |-> Some(<<"10.0.0.9">>),
                  allow_update |-> Some(<<"::1", "bad">>)]
    /\ input = ZoneText("also-notify { 10.0.0.1; }; ")
    /\ response = Failed("InvalidRequest")
    /\ IsNone(sent)
    /\ named = Some(input)


====
